---- MODULE Spec2Model ----
(***************************************************************************)
(* A model of the Zero compiler pipeline: the type checker with its symbol *)
(* table and module exports, the single-pass bytecode compiler, the stack  *)
(* VM that runs the emitted chunk, the module loader and the named-type    *)
(* resolver.  Programs are abstract syntax trees (records tagged by `k`),  *)
(* indices into code, constants and local slots are 0-based as in the     *)
(* source, sequences are 1-based as in TLA+.                               *)
(***************************************************************************)
EXTENDS Integers, Sequences, FiniteSets, TLC

VARIABLES
    prog,            \* the program under compilation: its family and parameters
    phase,           \* position of the driver: "source", "checked", "run", ...
    pc,              \* TypeChecker::check: the statements of the program checked so far
    tc,              \* TypeChecker state
    chunk,           \* Chunk returned by Compiler::compile
    stack,           \* VM value stack
    frames,          \* VM call frames
    globals,         \* VM globals
    output,          \* lines printed so far
    trace,           \* history: per executed conditional jump, ip and stack height
    loaded_modules,  \* ModuleLoader.loaded_modules (names cached)
    loading_stack,   \* ModuleLoader.loading_stack
    visited,         \* ModuleLoader.visited
    load_result,     \* what the last load_module call returned
    rt,              \* the running resolve_type call: declarations, call stack, result
    fe,              \* front end: Lexer input, the tokens, Parser.current, the result
    it               \* legacy Interpreter: its Environment and the running statement

vars == <<prog, phase, pc, tc, chunk, stack, frames, globals, output, trace,
          loaded_modules, loading_stack, visited, load_result, rt, fe, it>>

pipelineVars == <<prog, phase, pc, tc, chunk, stack, frames, globals, output, trace>>
loaderVars == <<loaded_modules, loading_stack, visited, load_result>>
otherVars == <<fe, it>>

EmptyMap == [x \in {} |-> 0]

MapPut(m, key, val) == (key :> val) @@ m

(***************************************************************************)
(* ast: Type                                                               *)
(***************************************************************************)
TInt == [k |-> "Int"]
TFloat == [k |-> "Float"]
TString == [k |-> "String"]
TBool == [k |-> "Bool"]
TVoid == [k |-> "Void"]
TNull == [k |-> "Null"]
TUnknown == [k |-> "Unknown"]
TArray(elem) == [k |-> "Array", elem |-> elem]
TFunction(params, ret) == [k |-> "Function", params |-> params, return_type |-> ret]
TStruct(name, fields) == [k |-> "Struct", name |-> name, fields |-> fields]
TNamed(name) == [k |-> "Named", name |-> name]
StructField(name, ty) == [name |-> name, field_type |-> ty]

None == [k |-> "None"]
IsSome(x) == x.k # "None"

is_numeric(t) == t.k \in {"Int", "Float"}

RECURSIVE is_compatible_with(_, _)
is_compatible_with(a, b) ==
    IF a = b THEN TRUE
    ELSE IF is_numeric(a) /\ is_numeric(b) THEN TRUE
    ELSE IF a.k = "Unknown" \/ b.k = "Unknown" THEN TRUE
    ELSE IF a.k = "Array" /\ b.k = "Array" THEN is_compatible_with(a.elem, b.elem)
    ELSE IF a.k = "Struct" /\ b.k = "Struct" THEN a = b
    ELSE FALSE

(***************************************************************************)
(* ast: Expr and Stmt                                                      *)
(***************************************************************************)
EInt(n) == [k |-> "Integer", v |-> n]
EBool(b) == [k |-> "Boolean", v |-> b]
EStr(s) == [k |-> "String", v |-> s]
EIdent(name) == [k |-> "Identifier", name |-> name]
EPath(segments) == [k |-> "Path", segments |-> segments]
EArray(elements) == [k |-> "Array", elements |-> elements]
EBinary(left, operator, right) ==
    [k |-> "Binary", left |-> left, operator |-> operator, right |-> right]
EUnary(operator, operand) == [k |-> "Unary", operator |-> operator, operand |-> operand]
ECall(callee, arguments) == [k |-> "Call", callee |-> callee, arguments |-> arguments]
EIndex(object, index) == [k |-> "Index", object |-> object, index |-> index]
\* a struct literal's fields are (name, value) pairs in the order written
FieldInit(name, value) == [name |-> name, value |-> value]
EStructLiteral(struct_name, fields) ==
    [k |-> "StructLiteral", struct_name |-> struct_name, fields |-> fields]
EFieldAccess(object, field) == [k |-> "FieldAccess", object |-> object, field |-> field]
EFieldAssign(object, field, value) ==
    [k |-> "FieldAssign", object |-> object, field |-> field, value |-> value]
EIndexAssign(object, index, value) ==
    [k |-> "IndexAssign", object |-> object, index |-> index, value |-> value]
EAssign(name, value) == [k |-> "Assign", name |-> name, value |-> value]
EMethodCall(object, method, arguments) ==
    [k |-> "MethodCall", object |-> object, method |-> method, arguments |-> arguments]

Public == "Public"
Private == "Private"

Parameter(name, ann) == [name |-> name, type_annotation |-> ann]

SExpr(e) == [k |-> "Expression", expr |-> e]
SVar(name, mutable, ann, init) ==
    [k |-> "VarDeclaration", name |-> name, mutable |-> mutable,
     type_annotation |-> ann, initializer |-> init]
SFn(visibility, name, parameters, ret, body) ==
    [k |-> "FnDeclaration", visibility |-> visibility, name |-> name,
     parameters |-> parameters, return_type |-> ret, body |-> body]
SStruct(visibility, name, fields) ==
    [k |-> "StructDeclaration", visibility |-> visibility, name |-> name, fields |-> fields]
SAlias(visibility, name, target) ==
    [k |-> "TypeAlias", visibility |-> visibility, name |-> name, target_type |-> target]
\* an impl block and its MethodDeclarations, whose parameters leave out self
SImpl(type_name, methods) == [k |-> "ImplBlock", type_name |-> type_name, methods |-> methods]
MethodDeclaration(name, parameters, ret, body) ==
    [name |-> name, parameters |-> parameters, return_type |-> ret, body |-> body]
SReturn(value) == [k |-> "Return", value |-> value]
SIf(c, t, e) == [k |-> "If", condition |-> c, then_branch |-> t, else_branch |-> e]
SWhile(c, body) == [k |-> "While", condition |-> c, body |-> body]
SFor(variable, start, end, body) ==
    [k |-> "For", variable |-> variable, start |-> start, end |-> end, body |-> body]
SPrint(e) == [k |-> "Print", value |-> e]
SBlock(statements) == [k |-> "Block", statements |-> statements]
SBreak == [k |-> "Break"]
SContinue == [k |-> "Continue"]
SMod(name, statements, is_public) ==
    [k |-> "ModuleDeclaration", name |-> name, statements |-> statements,
     is_public |-> is_public]
SModRef(name, is_public) == [k |-> "ModuleReference", name |-> name, is_public |-> is_public]
SUse(path, items) == [k |-> "UseStatement", path |-> path, items |-> items]

UseSingle(name) == [k |-> "Single", name |-> name]
UseAll == [k |-> "All"]
UseMultiple(names) == [k |-> "Multiple", names |-> names]
UseRenamed(original, alias) == [k |-> "Renamed", original |-> original, alias |-> alias]

(***************************************************************************)
(* type_checker: SymbolTable                                               *)
(***************************************************************************)
Symbol(symbol_type, is_mutable, visibility, module_path) ==
    [symbol_type |-> symbol_type, is_mutable |-> is_mutable,
     visibility |-> visibility, module_path |-> module_path]

Some(x) == [k |-> "Some", v |-> x]

NewSymbolTable ==
    [scopes |-> <<EmptyMap>>, modules |-> EmptyMap,
     current_module_path |-> <<>>, imported_symbols |-> EmptyMap]

push_scope(st) == [st EXCEPT !.scopes = Append(@, EmptyMap)]

pop_scope(st) == [st EXCEPT !.scopes = SubSeq(@, 1, Len(@) - 1)]

ScopeInsert(st, name, symbol) ==
    IF Len(st.scopes) = 0 THEN st
    ELSE [st EXCEPT !.scopes[Len(st.scopes)] = MapPut(@, name, symbol)]

register_module_symbol(st, name, symbol) ==
    LET path == st.current_module_path
        old == IF path \in DOMAIN st.modules THEN st.modules[path] ELSE EmptyMap
    IN [st EXCEPT !.modules = MapPut(@, path, MapPut(old, name, symbol))]

define_with_visibility(st, name, symbol_type, is_mutable, visibility) ==
    LET symbol == Symbol(symbol_type, is_mutable, visibility, st.current_module_path)
        st1 == ScopeInsert(st, name, symbol)
    IN IF visibility = Public /\ Len(st.current_module_path) > 0
       THEN register_module_symbol(st1, name, symbol)
       ELSE st1

define(st, name, symbol_type, is_mutable) ==
    define_with_visibility(st, name, symbol_type, is_mutable, Private)

RECURSIVE ScopeLookup(_, _, _)
ScopeLookup(scopes, name, i) ==
    IF i = 0 THEN None
    ELSE IF name \in DOMAIN scopes[i] THEN Some(scopes[i][name])
    ELSE ScopeLookup(scopes, name, i - 1)

\* SymbolTable::get: imported symbols first, then the scope chain innermost first.
SymGet(st, name) ==
    IF name \in DOMAIN st.imported_symbols
       /\ st.imported_symbols[name].path \in DOMAIN st.modules
       /\ st.imported_symbols[name].original
             \in DOMAIN st.modules[st.imported_symbols[name].path]
    THEN Some(st.modules[st.imported_symbols[name].path]
                        [st.imported_symbols[name].original])
    ELSE ScopeLookup(st.scopes, name, Len(st.scopes))

enter_module(st, module_name) ==
    [st EXCEPT !.current_module_path = Append(@, module_name)]

exit_module(st) ==
    [st EXCEPT !.current_module_path = SubSeq(@, 1, Len(@) - 1)]

import_renamed(st, module_path, original_name, alias) ==
    IF module_path \in DOMAIN st.modules
       /\ original_name \in DOMAIN st.modules[module_path]
       /\ st.modules[module_path][original_name].visibility = Public
    THEN ScopeInsert(
            [st EXCEPT !.imported_symbols =
                MapPut(@, alias, [path |-> module_path, original |-> original_name])],
            alias, st.modules[module_path][original_name])
    ELSE st

import_symbol(st, module_path, symbol_name) ==
    IF module_path \in DOMAIN st.modules
       /\ symbol_name \in DOMAIN st.modules[module_path]
       /\ st.modules[module_path][symbol_name].visibility = Public
    THEN ScopeInsert(
            [st EXCEPT !.imported_symbols =
                MapPut(@, symbol_name, [path |-> module_path, original |-> symbol_name])],
            symbol_name, st.modules[module_path][symbol_name])
    ELSE st

RECURSIVE import_multiple(_, _, _)
import_multiple(st, module_path, symbol_names) ==
    IF symbol_names = <<>> THEN st
    ELSE import_multiple(import_symbol(st, module_path, Head(symbol_names)),
                         module_path, Tail(symbol_names))

RECURSIVE ImportNames(_, _, _)
ImportNames(st, module_path, names) ==
    IF names = {} THEN st
    ELSE LET n == CHOOSE x \in names : TRUE
         IN ImportNames(import_symbol(st, module_path, n), module_path, names \ {n})

\* import_all: every Public symbol of the module; the order of the HashMap
\* iteration does not matter, the imported names are distinct.
import_all(st, module_path) ==
    IF module_path \in DOMAIN st.modules
    THEN ImportNames(st, module_path, DOMAIN st.modules[module_path])
    ELSE st

(***************************************************************************)
(* type_checker: TypeChecker                                               *)
(***************************************************************************)
NewTypeChecker ==
    [symbol_table |-> NewSymbolTable, current_function_return_type |-> None,
     loop_depth |-> 0, methods |-> EmptyMap, err |-> "ok"]

\* resolve_type: Named types are followed through the symbol table, the
\* element, parameter, return and field types are resolved recursively.
RECURSIVE ResolveType(_, _)
ResolveType(st, t) ==
    CASE t.k = "Named" ->
            LET symbol == SymGet(st, t.name)
            IN IF IsSome(symbol) THEN ResolveType(st, symbol.v.symbol_type) ELSE t
      [] t.k = "Array" -> TArray(ResolveType(st, t.elem))
      [] t.k = "Function" ->
            TFunction([i \in 1..Len(t.params) |-> ResolveType(st, t.params[i])],
                      ResolveType(st, t.return_type))
      [] t.k = "Struct" ->
            TStruct(t.name,
                    [i \in 1..Len(t.fields) |->
                        StructField(t.fields[i].name,
                                    ResolveType(st, t.fields[i].field_type))])
      [] OTHER -> t

TOk(ty) == [err |-> "ok", ty |-> ty]
TErr(e) == [err |-> e, ty |-> TUnknown]

OrUnknown(opt) == IF IsSome(opt) THEN opt ELSE TUnknown

RECURSIVE InferType(_, _)
RECURSIVE InferArgs(_, _, _, _, _)
RECURSIVE InferElements(_, _, _, _)

\* infer_type, Expr::Path: the last segment is looked up in the export map of
\* the module named by the segments before it.
InferPath(self, e) ==
    IF Len(e.segments) = 0 THEN TErr("UndefinedVariable")
    ELSE LET item_name == e.segments[Len(e.segments)]
             module_path == SubSeq(e.segments, 1, Len(e.segments) - 1)
             modules == self.symbol_table.modules
         IN IF module_path \in DOMAIN modules
            THEN IF item_name \in DOMAIN modules[module_path]
                 THEN IF modules[module_path][item_name].visibility = Public
                      THEN TOk(modules[module_path][item_name].symbol_type)
                      ELSE TErr("UndefinedVariable")
                 ELSE TErr("UndefinedVariable")
            ELSE TErr("UndefinedVariable")

\* the Binary arm that takes a Float operand for an Int
InferBinaryIntOnly(self, e) ==
    LET l == InferType(self, e.left)
        r == IF l.err = "ok" THEN InferType(self, e.right) ELSE l
        left_type == l.ty
        right_type == r.ty
        op == e.operator
    IN IF l.err # "ok" THEN l
       ELSE IF r.err # "ok" THEN r
       ELSE CASE op \in {"Add", "Subtract", "Multiply", "Divide"} ->
                    IF left_type = TUnknown \/ right_type = TUnknown THEN TOk(TUnknown)
                    ELSE IF is_numeric(left_type) /\ is_numeric(right_type)
                    THEN TOk(TInt)
                    ELSE IF op = "Add" /\ left_type = TString /\ right_type = TString
                    THEN TOk(TString)
                    ELSE TErr("InvalidOperation")
              [] op = "Modulo" ->
                    IF left_type = TUnknown \/ right_type = TUnknown THEN TOk(TUnknown)
                    ELSE IF left_type = TInt /\ right_type = TInt THEN TOk(TInt)
                    ELSE TErr("InvalidOperation")
              [] op \in {"Equal", "NotEqual", "Less", "LessEqual", "Greater",
                         "GreaterEqual"} -> TOk(TBool)
              [] op \in {"And", "Or"} ->
                    IF left_type = TUnknown \/ right_type = TUnknown THEN TOk(TUnknown)
                    ELSE IF left_type = TBool /\ right_type = TBool THEN TOk(TBool)
                    ELSE TErr("InvalidOperation")

InferBinary(self, e) ==
    LET l == InferType(self, e.left)
        r == IF l.err = "ok" THEN InferType(self, e.right) ELSE l
        left_type == l.ty
        right_type == r.ty
        op == e.operator
    IN IF l.err # "ok" THEN l
       ELSE IF r.err # "ok" THEN r
       ELSE CASE op \in {"Add", "Subtract", "Multiply", "Divide"} ->
                    IF left_type = TUnknown \/ right_type = TUnknown THEN TOk(TUnknown)
                    ELSE IF is_numeric(left_type) /\ is_numeric(right_type)
                    THEN (IF left_type = TFloat \/ right_type = TFloat
                          THEN TOk(TFloat) ELSE TOk(TInt))
                    ELSE IF op = "Add" /\ left_type = TString /\ right_type = TString
                    THEN TOk(TString)
                    ELSE TErr("InvalidOperation")
              [] op = "Modulo" ->
                    IF left_type = TUnknown \/ right_type = TUnknown THEN TOk(TUnknown)
                    ELSE IF left_type = TInt /\ right_type = TInt THEN TOk(TInt)
                    ELSE TErr("InvalidOperation")
              [] op \in {"Equal", "NotEqual", "Less", "LessEqual", "Greater",
                         "GreaterEqual"} -> TOk(TBool)
              [] op \in {"And", "Or"} ->
                    IF left_type = TUnknown \/ right_type = TUnknown THEN TOk(TUnknown)
                    ELSE IF left_type = TBool /\ right_type = TBool THEN TOk(TBool)
                    ELSE TErr("InvalidOperation")

InferUnary(self, e) ==
    LET o == InferType(self, e.operand)
    IN IF o.err # "ok" THEN o
       ELSE IF e.operator = "Not"
            THEN (IF o.ty = TBool THEN TOk(TBool) ELSE TErr("TypeMismatch"))
            ELSE (IF is_numeric(o.ty) THEN TOk(o.ty) ELSE TErr("TypeMismatch"))

\* the Assign arm without the look at is_mutable
InferAssignAnyBinding(self, e) ==
    LET v == InferType(self, e.value)
        symbol == SymGet(self.symbol_table, e.name)
    IN IF v.err # "ok" THEN v
       ELSE IF IsSome(symbol)
       THEN LET resolved_symbol == ResolveType(self.symbol_table, symbol.v.symbol_type)
                resolved_value == ResolveType(self.symbol_table, v.ty)
            IN IF resolved_symbol # TUnknown /\ resolved_value # TUnknown
                  /\ ~is_compatible_with(resolved_symbol, resolved_value)
               THEN TErr("TypeMismatch")
               ELSE TOk(v.ty)
       ELSE TErr("UndefinedVariable")

InferAssign(self, e) ==
    LET v == InferType(self, e.value)
        symbol == SymGet(self.symbol_table, e.name)
    IN IF v.err # "ok" THEN v
       ELSE IF IsSome(symbol)
       THEN IF ~symbol.v.is_mutable THEN TErr("ImmutableAssignment")
            ELSE LET resolved_symbol == ResolveType(self.symbol_table, symbol.v.symbol_type)
                     resolved_value == ResolveType(self.symbol_table, v.ty)
                 IN IF resolved_symbol # TUnknown /\ resolved_value # TUnknown
                       /\ ~is_compatible_with(resolved_symbol, resolved_value)
                    THEN TErr("TypeMismatch")
                    ELSE TOk(v.ty)
       ELSE TErr("UndefinedVariable")

\* the zip over (param_type, arg): infers each argument in order and compares
\* it with the parameter type; `lenient` is the method-call variant that lets
\* an Unknown argument through.
InferArgs(self, params, arguments, i, lenient) ==
    IF i > Len(params) \/ i > Len(arguments) THEN "ok"
    ELSE LET a == InferType(self, arguments[i])
             resolved_param == ResolveType(self.symbol_table, params[i])
             resolved_arg == ResolveType(self.symbol_table, a.ty)
         IN IF a.err # "ok" THEN a.err
            ELSE IF ~is_compatible_with(resolved_param, resolved_arg)
                    /\ (~lenient \/ resolved_arg # TUnknown)
            THEN "ArgumentTypeMismatch"
            ELSE InferArgs(self, params, arguments, i + 1, lenient)

\* the MethodCall arm once the object's resolved type names a type: the
\* signature is looked up in self.methods, then arity and arguments
MethodSignatureCheck(self, e, type_name) ==
    IF type_name \notin DOMAIN self.methods
       \/ e.method \notin DOMAIN self.methods[type_name]
    THEN TErr("UndefinedFunction")
    ELSE IF Len(self.methods[type_name][e.method].params) # Len(e.arguments)
    THEN TErr("ArgumentCountMismatch")
    ELSE IF InferArgs(self, self.methods[type_name][e.method].params,
                      e.arguments, 1, TRUE) # "ok"
    THEN TErr(InferArgs(self, self.methods[type_name][e.method].params,
                        e.arguments, 1, TRUE))
    ELSE TOk(self.methods[type_name][e.method].return_type)

MethodCallOnType(self, e, obj_type) ==
    IF obj_type.k \in {"Struct", "Named"}
    THEN MethodSignatureCheck(self, e, obj_type.name)
    ELSE TErr("InvalidOperation")

MethodCallOn(self, e, o) ==
    IF o.err # "ok" THEN o
    ELSE MethodCallOnType(self, e, ResolveType(self.symbol_table, o.ty))

InferMethodCall(self, e) == MethodCallOn(self, e, InferType(self, e.object))

InferCall(self, e) ==
    IF e.callee.k = "Identifier"
    THEN LET symbol == SymGet(self.symbol_table, e.callee.name)
         IN IF IsSome(symbol)
            THEN IF symbol.v.symbol_type.k = "Function"
                 THEN LET func_type == symbol.v.symbol_type
                      IN IF Len(func_type.params) # Len(e.arguments)
                         THEN TErr("ArgumentCountMismatch")
                         ELSE LET r == InferArgs(self, func_type.params, e.arguments,
                                                 1, FALSE)
                              IN IF r # "ok" THEN TErr(r)
                                 ELSE TOk(func_type.return_type)
                 ELSE TErr("TypeMismatch")
            ELSE TErr("UndefinedFunction")
    ELSE TOk(TUnknown)

InferElements(self, elements, i, first_type) ==
    IF i > Len(elements) THEN "ok"
    ELSE LET el == InferType(self, elements[i])
         IN IF el.err # "ok" THEN el.err
            ELSE IF first_type # el.ty /\ el.ty # TUnknown /\ first_type # TUnknown
            THEN "TypeMismatch"
            ELSE InferElements(self, elements, i + 1, first_type)

InferArray(self, e) ==
    IF Len(e.elements) = 0 THEN TOk(TUnknown)
    ELSE LET first == InferType(self, e.elements[1])
         IN IF first.err # "ok" THEN first
            ELSE LET r == InferElements(self, e.elements, 2, first.ty)
                 IN IF r # "ok" THEN TErr(r) ELSE TOk(TArray(first.ty))

InferIndex(self, e) ==
    LET o == InferType(self, e.object)
        i == IF o.err = "ok" THEN InferType(self, e.index) ELSE o
    IN IF o.err # "ok" THEN o
       ELSE IF i.err # "ok" THEN i
       ELSE IF i.ty # TInt /\ i.ty # TUnknown THEN TErr("TypeMismatch")
       ELSE IF o.ty.k = "Array" THEN TOk(o.ty.elem) ELSE TOk(TUnknown)

InferIndexAssign(self, e) ==
    LET o == InferType(self, e.object)
        i == IF o.err = "ok" THEN InferType(self, e.index) ELSE o
        v == IF i.err = "ok" THEN InferType(self, e.value) ELSE i
    IN IF o.err # "ok" THEN o
       ELSE IF i.err # "ok" THEN i
       ELSE IF v.err # "ok" THEN v
       ELSE IF i.ty # TInt /\ i.ty # TUnknown THEN TErr("TypeMismatch")
       ELSE IF o.ty.k = "Array"
               /\ LET resolved_element == ResolveType(self.symbol_table, o.ty.elem)
                      resolved_val == ResolveType(self.symbol_table, v.ty)
                  IN ~is_compatible_with(resolved_element, resolved_val)
                     /\ resolved_val # TUnknown
       THEN TErr("TypeMismatch")
       ELSE TOk(v.ty)

\* `.iter().position(|f| f.name == name)` over a list of named fields: the
\* 0-based index of the first field with that name, -1 when there is none
Position(fields, name) ==
    LET found == {i \in DOMAIN fields : fields[i].name = name}
    IN IF found = {} THEN -1
       ELSE (CHOOSE i \in found : \A j \in found : i <= j) - 1

\* the loop over the fields a struct literal provides
RECURSIVE InferLiteralFields(_, _, _)
InferLiteralFields(self, fields, struct_def) ==
    IF fields = <<>> THEN "ok"
    ELSE LET field_type == InferType(self, Head(fields).value)
             def == Position(struct_def.fields, Head(fields).name)
         IN IF field_type.err # "ok" THEN field_type.err
            ELSE IF def < 0 THEN "UndefinedVariable"
            ELSE IF ~is_compatible_with(
                        field_type.ty,
                        ResolveType(self.symbol_table,
                                    struct_def.fields[def + 1].field_type))
            THEN "TypeMismatch"
            ELSE InferLiteralFields(self, Tail(fields), struct_def)

InferStructLiteral(self, e) ==
    LET symbol == SymGet(self.symbol_table, e.struct_name)
        struct_type == ResolveType(self.symbol_table, symbol.v.symbol_type)
    IN IF ~IsSome(symbol) THEN TErr("UndefinedVariable")
       ELSE IF struct_type.k # "Struct" THEN TOk(struct_type)
       ELSE IF Len(e.fields) # Len(struct_type.fields) THEN TErr("TypeMismatch")
       ELSE LET r == InferLiteralFields(self, e.fields, struct_type)
            IN IF r # "ok" THEN TErr(r) ELSE TOk(struct_type)

InferFieldAccess(self, e) ==
    LET obj_type == InferType(self, e.object)
    IN IF obj_type.err # "ok" THEN obj_type
       ELSE IF obj_type.ty.k # "Struct" THEN TErr("InvalidOperation")
       ELSE IF Position(obj_type.ty.fields, e.field) < 0 THEN TErr("UndefinedVariable")
       ELSE TOk(obj_type.ty.fields[Position(obj_type.ty.fields, e.field) + 1].field_type)

InferFieldAssign(self, e) ==
    LET obj_type == InferType(self, e.object)
        val_type == IF obj_type.err = "ok" THEN InferType(self, e.value) ELSE obj_type
    IN IF obj_type.err # "ok" THEN obj_type
       ELSE IF val_type.err # "ok" THEN val_type
       ELSE IF obj_type.ty.k # "Struct" THEN TErr("InvalidOperation")
       ELSE IF Position(obj_type.ty.fields, e.field) < 0 THEN TErr("UndefinedVariable")
       ELSE LET f == obj_type.ty.fields[Position(obj_type.ty.fields, e.field) + 1]
                resolved_field == ResolveType(self.symbol_table, f.field_type)
                resolved_val == ResolveType(self.symbol_table, val_type.ty)
            IN IF ~is_compatible_with(resolved_field, resolved_val)
                  /\ resolved_val # TUnknown
               THEN TErr("TypeMismatch")
               ELSE TOk(val_type.ty)

InferType(self, e) ==
    CASE e.k = "Integer" -> TOk(TInt)
      [] e.k = "String" -> TOk(TString)
      [] e.k = "Boolean" -> TOk(TBool)
      [] e.k = "Identifier" ->
            LET symbol == SymGet(self.symbol_table, e.name)
            IN IF IsSome(symbol) THEN TOk(symbol.v.symbol_type)
               ELSE TErr("UndefinedVariable")
      [] e.k = "Path" -> InferPath(self, e)
      [] e.k = "Binary" -> InferBinary(self, e)
      [] e.k = "Unary" -> InferUnary(self, e)
      [] e.k = "Assign" -> InferAssign(self, e)
      [] e.k = "Call" -> InferCall(self, e)
      [] e.k = "Array" -> InferArray(self, e)
      [] e.k = "Index" -> InferIndex(self, e)
      [] e.k = "IndexAssign" -> InferIndexAssign(self, e)
      [] e.k = "StructLiteral" -> InferStructLiteral(self, e)
      [] e.k = "FieldAccess" -> InferFieldAccess(self, e)
      [] e.k = "FieldAssign" -> InferFieldAssign(self, e)
      [] e.k = "MethodCall" -> InferMethodCall(self, e)

WithErr(self, e) == [self EXCEPT !.err = e]

OnTable(self, st) == [self EXCEPT !.symbol_table = st]

RECURSIVE CheckStatement(_, _)
RECURSIVE CheckStatements(_, _)

\* `for stmt in body { self.check_statement(stmt)?; }`
CheckStatements(self, stmts) ==
    IF self.err # "ok" \/ stmts = <<>> THEN self
    ELSE CheckStatements(CheckStatement(self, Head(stmts)), Tail(stmts))

RECURSIVE DefineParams(_, _)
DefineParams(st, parameters) ==
    IF parameters = <<>> THEN st
    ELSE DefineParams(define(st, Head(parameters).name,
                             OrUnknown(Head(parameters).type_annotation), FALSE),
                      Tail(parameters))

CheckVarDeclaration(self, s) ==
    LET init == IF IsSome(s.initializer) THEN InferType(self, s.initializer)
                ELSE TOk(TNull)
        actual_type == init.ty
        resolved_annotated == ResolveType(self.symbol_table, s.type_annotation)
        resolved_actual == ResolveType(self.symbol_table, actual_type)
    IN IF init.err # "ok" THEN WithErr(self, init.err)
       ELSE IF IsSome(s.type_annotation)
       THEN IF IsSome(s.initializer)
               /\ ~is_compatible_with(resolved_annotated, resolved_actual)
               /\ resolved_actual # TUnknown
            THEN WithErr(self, "TypeMismatch")
            ELSE OnTable(self, define(self.symbol_table, s.name, resolved_annotated,
                                      s.mutable))
       ELSE OnTable(self, define(self.symbol_table, s.name, actual_type, s.mutable))

CheckFnDeclaration(self, s) ==
    LET param_types == [i \in 1..Len(s.parameters) |->
                            OrUnknown(s.parameters[i].type_annotation)]
        ret_type == OrUnknown(s.return_type)
        function_type == TFunction(param_types, ret_type)
        st1 == define_with_visibility(self.symbol_table, s.name, function_type, FALSE,
                                      s.visibility)
        st2 == DefineParams(push_scope(st1), s.parameters)
        inner == CheckStatements(
                    [self EXCEPT !.symbol_table = st2,
                                 !.current_function_return_type = ret_type],
                    s.body)
    IN IF inner.err # "ok" THEN inner
       ELSE [inner EXCEPT !.current_function_return_type = None,
                          !.symbol_table = pop_scope(@)]

\* the signatures an impl block registers: parameter types without self,
\* return type Void when none is written; a later method of the same name
\* replaces an earlier one
MethodSignature(method) ==
    [params |-> [i \in 1..Len(method.parameters) |->
                    OrUnknown(method.parameters[i].type_annotation)],
     return_type |-> IF IsSome(method.return_type) THEN method.return_type
                     ELSE TVoid]

MethodMap(methods) ==
    [name \in {methods[i].name : i \in DOMAIN methods} |->
        MethodSignature(methods[CHOOSE i \in DOMAIN methods :
                                    /\ methods[i].name = name
                                    /\ \A j \in DOMAIN methods :
                                          methods[j].name = name => j <= i])]

\* the scope a method body is checked in: self with the type of the symbol
\* type_name, then the declared parameters
MethodScope(st, type_name, method) ==
    DefineParams(define(push_scope(st), "self",
                        SymGet(st, type_name).v.symbol_type, FALSE),
                 method.parameters)

LeaveMethod(inner) ==
    IF inner.err # "ok" THEN inner
    ELSE [inner EXCEPT !.current_function_return_type = None,
                       !.symbol_table = pop_scope(@)]

\* `for method in methods`: each body is checked in turn
RECURSIVE CheckMethods(_, _, _)
CheckMethods(self, type_name, methods) ==
    IF self.err # "ok" \/ methods = <<>> THEN self
    ELSE CheckMethods(
            LeaveMethod(CheckStatements(
                [self EXCEPT !.symbol_table =
                                 MethodScope(@, type_name, Head(methods)),
                             !.current_function_return_type =
                                 MethodSignature(Head(methods)).return_type],
                Head(methods).body)),
            type_name, Tail(methods))

\* `self.methods.insert(type_name, method_map)` after the loop over the methods
RegisterMethods(checked, s) ==
    IF checked.err # "ok" THEN checked
    ELSE [checked EXCEPT !.methods = MapPut(@, s.type_name, MethodMap(s.methods))]

CheckImplBlock(self, s) ==
    IF ~IsSome(SymGet(self.symbol_table, s.type_name))
    THEN WithErr(self, "UndefinedVariable")
    ELSE RegisterMethods(CheckMethods(self, s.type_name, s.methods), s)

CheckReturn(self, s) ==
    LET r == IF IsSome(s.value) THEN InferType(self, s.value) ELSE TOk(TVoid)
        expected_type == self.current_function_return_type
    IN IF r.err # "ok" THEN WithErr(self, r.err)
       ELSE IF IsSome(expected_type)
               /\ LET resolved_expected == ResolveType(self.symbol_table, expected_type)
                      resolved_return == ResolveType(self.symbol_table, r.ty)
                  IN /\ resolved_expected # TUnknown
                     /\ resolved_return # TUnknown
                     /\ ~is_compatible_with(resolved_expected, resolved_return)
       THEN WithErr(self, "ReturnTypeMismatch")
       ELSE self

\* push_scope; check the statements; pop_scope
CheckScoped(self, stmts) ==
    LET inner == CheckStatements(OnTable(self, push_scope(self.symbol_table)), stmts)
    IN IF inner.err # "ok" THEN inner
       ELSE OnTable(inner, pop_scope(inner.symbol_table))

CheckIf(self, s) ==
    LET c == InferType(self, s.condition)
    IN IF c.err # "ok" THEN WithErr(self, c.err)
       ELSE IF c.ty # TBool /\ c.ty # TUnknown THEN WithErr(self, "TypeMismatch")
       ELSE LET t == CheckScoped(self, s.then_branch)
            IN IF t.err # "ok" \/ ~IsSome(s.else_branch) THEN t
               ELSE CheckScoped(t, s.else_branch.v)

CheckWhile(self, s) ==
    LET c == InferType(self, s.condition)
    IN IF c.err # "ok" THEN WithErr(self, c.err)
       ELSE IF c.ty # TBool /\ c.ty # TUnknown THEN WithErr(self, "TypeMismatch")
       ELSE LET inner == CheckScoped([self EXCEPT !.loop_depth = @ + 1], s.body)
            IN IF inner.err # "ok" THEN inner
               ELSE [inner EXCEPT !.loop_depth = @ - 1]

CheckFor(self, s) ==
    LET a == InferType(self, s.start)
        b == IF a.err = "ok" THEN InferType(self, s.end) ELSE a
    IN IF a.err # "ok" THEN WithErr(self, a.err)
       ELSE IF b.err # "ok" THEN WithErr(self, b.err)
       ELSE IF a.ty # TInt /\ a.ty # TUnknown THEN WithErr(self, "TypeMismatch")
       ELSE IF b.ty # TInt /\ b.ty # TUnknown THEN WithErr(self, "TypeMismatch")
       ELSE LET st1 == define(push_scope(self.symbol_table), s.variable, TInt, TRUE)
                inner == CheckStatements(
                            [self EXCEPT !.loop_depth = @ + 1, !.symbol_table = st1],
                            s.body)
            IN IF inner.err # "ok" THEN inner
               ELSE [inner EXCEPT !.symbol_table = pop_scope(@), !.loop_depth = @ - 1]

CheckModuleDeclaration(self, s) ==
    LET st1 == push_scope(enter_module(self.symbol_table, s.name))
        inner == CheckStatements(OnTable(self, st1), s.statements)
    IN IF inner.err # "ok" THEN inner
       ELSE OnTable(inner, exit_module(pop_scope(inner.symbol_table)))

CheckUseStatement(self, s) ==
    LET st == self.symbol_table
    IN CASE s.items.k = "Single" -> OnTable(self, import_symbol(st, s.path, s.items.name))
         [] s.items.k = "All" -> OnTable(self, import_all(st, s.path))
         [] s.items.k = "Multiple" ->
                OnTable(self, import_multiple(st, s.path, s.items.names))
         [] s.items.k = "Renamed" ->
                OnTable(self, import_renamed(st, s.path, s.items.original, s.items.alias))

CheckStatement(self, s) ==
    IF self.err # "ok" THEN self
    ELSE CASE s.k = "StructDeclaration" ->
                OnTable(self, define_with_visibility(self.symbol_table, s.name,
                                  TStruct(s.name, s.fields), FALSE, s.visibility))
           [] s.k = "TypeAlias" ->
                OnTable(self, define_with_visibility(self.symbol_table, s.name,
                                  s.target_type, FALSE, s.visibility))
           [] s.k = "Expression" ->
                LET r == InferType(self, s.expr)
                IN IF r.err # "ok" THEN WithErr(self, r.err) ELSE self
           [] s.k = "VarDeclaration" -> CheckVarDeclaration(self, s)
           [] s.k = "FnDeclaration" -> CheckFnDeclaration(self, s)
           [] s.k = "ImplBlock" -> CheckImplBlock(self, s)
           [] s.k = "Return" -> CheckReturn(self, s)
           [] s.k = "If" -> CheckIf(self, s)
           [] s.k = "While" -> CheckWhile(self, s)
           [] s.k = "For" -> CheckFor(self, s)
           [] s.k = "Break" ->
                IF self.loop_depth = 0 THEN WithErr(self, "BreakOutsideLoop") ELSE self
           [] s.k = "Continue" ->
                IF self.loop_depth = 0 THEN WithErr(self, "ContinueOutsideLoop") ELSE self
           [] s.k = "Print" ->
                LET r == InferType(self, s.value)
                IN IF r.err # "ok" THEN WithErr(self, r.err) ELSE self
           [] s.k = "Block" -> CheckScoped(self, s.statements)
           [] s.k = "ModuleDeclaration" -> CheckModuleDeclaration(self, s)
           [] s.k = "UseStatement" -> CheckUseStatement(self, s)
           [] s.k = "ModuleReference" -> self

\* TypeChecker::check on a fresh checker
Check(program) == CheckStatements(NewTypeChecker, program)

(***************************************************************************)
(* bytecode: Value, OpCode, Chunk                                          *)
(***************************************************************************)
VInteger(n) == [t |-> "Integer", v |-> n]
VBoolean(b) == [t |-> "Boolean", v |-> b]
VString(s) == [t |-> "String", v |-> s]
VNull == [t |-> "Null", v |-> 0]
VFunction(f) == [t |-> "Function", v |-> f]
VArray(elems) == [t |-> "Array", v |-> elems]
VStruct(name, fields) == [t |-> "Struct", v |-> name, fields |-> fields]

Op(name, a) == [op |-> name, a |-> a]
Op0(name) == [op |-> name, a |-> 0]

NewChunk == [code |-> <<>>, constants |-> <<>>, sites |-> <<>>, marks |-> <<>>]

(***************************************************************************)
(* compiler: Compiler                                                      *)
(***************************************************************************)
MaxLocals == 256

NewCompiler ==
    [chunk |-> NewChunk, locals |-> <<>>, scope_depth |-> 0,
     loop_starts |-> <<>>, loop_breaks |-> <<>>, structs |-> EmptyMap,
     local_types |-> <<>>, global_types |-> EmptyMap, methods |-> EmptyMap,
     err |-> "ok"]

CErr(c, e) == IF c.err # "ok" THEN c ELSE [c EXCEPT !.err = e]

emit(c, op) ==
    IF c.err # "ok" THEN c ELSE [c EXCEPT !.chunk.code = Append(@, op)]

ChunkLen(c) == Len(c.chunk.code)

\* Chunk::add_constant appends the value; its index is the old length.
add_constant(c, value) ==
    IF c.err # "ok" THEN c ELSE [c EXCEPT !.chunk.constants = Append(@, value)]

ConstIdx(c) == Len(c.chunk.constants)

emit_const(c, value) == emit(add_constant(c, value), Op("LoadConst", ConstIdx(c)))

\* identifier_constant followed by the emit of a global access
emit_global(c, opname, name) ==
    emit(add_constant(c, VString(name)), Op(opname, ConstIdx(c)))

\* emit_jump: the offset it returns is ChunkLen of the compiler before the emit
emit_jump(c, opname) == emit(c, Op(opname, 0))

\* patch_jump that leaves the placeholder target in the slot
patch_jump_nothing(c, offset) ==
    IF c.err # "ok" THEN c
    ELSE IF c.chunk.code[offset + 1].op \in {"Jump", "JumpIfFalse", "JumpIfTrue"}
    THEN c
    ELSE CErr(c, "panic: Can only patch jump instructions")

patch_jump(c, offset) ==
    IF c.err # "ok" THEN c
    ELSE IF c.chunk.code[offset + 1].op \in {"Jump", "JumpIfFalse", "JumpIfTrue"}
    THEN [c EXCEPT !.chunk.code[offset + 1] = Op(@.op, ChunkLen(c))]
    ELSE CErr(c, "panic: Can only patch jump instructions")

RECURSIVE patch_jumps(_, _)
patch_jumps(c, offsets) ==
    IF offsets = <<>> THEN c
    ELSE patch_jumps(patch_jump(c, Head(offsets)), Tail(offsets))

\* add_local; `sites` remembers, for the history of the run, at which code
\* index the new slot becomes live.
add_local(c, name, is_mutable) ==
    IF c.err # "ok" THEN c
    ELSE IF Len(c.locals) >= MaxLocals THEN CErr(c, "TooManyLocals")
    ELSE [c EXCEPT !.locals = Append(@, [name |-> name, depth |-> c.scope_depth,
                                          is_mutable |-> is_mutable]),
                   !.chunk.sites = Append(@, [ip |-> ChunkLen(c), slot |-> Len(c.locals),
                                              name |-> name,
                                              param |-> ChunkLen(c) = 0])]

RECURSIVE LastLocal(_, _, _)
LastLocal(locals, name, i) ==
    IF i = 0 THEN -1
    ELSE IF locals[i].name = name THEN i - 1
    ELSE LastLocal(locals, name, i - 1)

\* resolve_local: the slot of the innermost local of that name, -1 for Err
resolve_local(c, name) == LastLocal(c.locals, name, Len(c.locals))

begin_scope(c) == IF c.err # "ok" THEN c ELSE [c EXCEPT !.scope_depth = @ + 1]

RECURSIVE PopScopeLocals(_)
PopScopeLocals(c) ==
    IF Len(c.locals) > 0 /\ c.locals[Len(c.locals)].depth > c.scope_depth
    THEN PopScopeLocals([emit(c, Op0("Pop")) EXCEPT
                            !.locals = SubSeq(@, 1, Len(@) - 1)])
    ELSE c

\* the second loop of end_scope: drop the trailing type records whose name
\* no local carries any more
RECURSIVE PopLocalTypes(_)
PopLocalTypes(c) ==
    IF Len(c.local_types) > 0
       /\ ~\E i \in DOMAIN c.locals :
              c.locals[i].name = c.local_types[Len(c.local_types)].name
    THEN PopLocalTypes([c EXCEPT !.local_types = SubSeq(@, 1, Len(@) - 1)])
    ELSE c

end_scope(c) ==
    IF c.err # "ok" THEN c
    ELSE PopLocalTypes(PopScopeLocals([c EXCEPT !.scope_depth = @ - 1]))

StructTypeOf(c, name) == TStruct(name, c.structs[name].fields)

resolve_named_type(c, t) ==
    IF t.k = "Named" /\ t.name \in DOMAIN c.structs THEN StructTypeOf(c, t.name) ELSE t

\* the newest local type record named `name`, 0 when there is none
RECURSIVE LastLocalType(_, _, _)
LastLocalType(local_types, name, i) ==
    IF i = 0 THEN 0
    ELSE IF local_types[i].name = name THEN i
    ELSE LastLocalType(local_types, name, i - 1)

RECURSIVE infer_expression_type(_, _)
infer_expression_type(c, e) ==
    CASE e.k = "Integer" -> TInt
      [] e.k = "String" -> TString
      [] e.k = "Boolean" -> TBool
      [] e.k = "Identifier" ->
            LET lt == LastLocalType(c.local_types, e.name, Len(c.local_types))
            IN IF lt > 0 THEN resolve_named_type(c, c.local_types[lt].var_type)
               ELSE IF e.name \in DOMAIN c.global_types
               THEN resolve_named_type(c, c.global_types[e.name])
               ELSE TUnknown
      [] e.k = "Array" ->
            IF Len(e.elements) > 0 THEN TArray(infer_expression_type(c, e.elements[1]))
            ELSE TArray(TUnknown)
      [] e.k = "StructLiteral" ->
            IF e.struct_name \in DOMAIN c.structs THEN StructTypeOf(c, e.struct_name)
            ELSE TUnknown
      [] e.k = "FieldAccess" ->
            LET obj_type == infer_expression_type(c, e.object)
            IN IF obj_type.k = "Struct" /\ Position(obj_type.fields, e.field) >= 0
               THEN obj_type.fields[Position(obj_type.fields, e.field) + 1].field_type
               ELSE TUnknown
      [] e.k = "Index" ->
            LET obj_type == infer_expression_type(c, e.object)
            IN IF obj_type.k = "Array" THEN obj_type.elem ELSE TUnknown
      [] OTHER -> TUnknown

get_field_index(struct_type, field_name) == Position(struct_type.fields, field_name)

\* Some(idx) of get_field_index, 0 when the type is no struct or has no such field
FieldIndexOf(obj_type, field) ==
    IF obj_type.k = "Struct" /\ get_field_index(obj_type, field) >= 0
    THEN get_field_index(obj_type, field)
    ELSE 0

\* the operand of FieldGet / FieldSet for object.field
FieldIndex(c, object, field) == FieldIndexOf(infer_expression_type(c, object), field)

RECURSIVE CompileExpr(_, _)
RECURSIVE CompileExprs(_, _)
RECURSIVE CompileStmt(_, _)
RECURSIVE CompileStmts(_, _)

CompileExprs(c, exprs) ==
    IF c.err # "ok" \/ exprs = <<>> THEN c
    ELSE CompileExprs(CompileExpr(c, Head(exprs)), Tail(exprs))

CompileStmts(c, stmts) ==
    IF c.err # "ok" \/ stmts = <<>> THEN c
    ELSE CompileStmts(CompileStmt(c, Head(stmts)), Tail(stmts))

CompileIdentifier(c, e) ==
    IF resolve_local(c, e.name) >= 0
    THEN emit(c, Op("LoadLocal", resolve_local(c, e.name)))
    ELSE emit_global(c, "LoadGlobal", e.name)

\* the store that follows an assignment to, or through, the variable `name`
StoreBack(c, name) ==
    IF resolve_local(c, name) >= 0
    THEN emit(c, Op("StoreLocal", resolve_local(c, name)))
    ELSE emit_global(c, "StoreGlobal", name)

\* `if let Expression::Identifier(name) = object`: the store back happens only
\* when the object assigned through is a plain variable
StoreBackThrough(c, object) ==
    IF object.k = "Identifier" THEN StoreBack(c, object.name) ELSE c

\* the And arm without the Pop that discards the left operand
CompileAndNoPop(c, e) ==
    LET c1 == CompileExpr(c, e.left)
        c2 == emit_jump(c1, "JumpIfFalse")
        c3 == CompileExpr(c2, e.right)
    IN patch_jump(c3, ChunkLen(c1))

CompileAnd(c, e) ==
    LET c1 == CompileExpr(c, e.left)
        c2 == emit(emit_jump(c1, "JumpIfFalse"), Op0("Pop"))
        c3 == CompileExpr(c2, e.right)
    IN patch_jump(c3, ChunkLen(c1))

CompileOr(c, e) ==
    LET c1 == CompileExpr(c, e.left)
        c2 == emit(emit_jump(c1, "JumpIfTrue"), Op0("Pop"))
        c3 == CompileExpr(c2, e.right)
    IN patch_jump(c3, ChunkLen(c1))

CompileBinary(c, e) ==
    CASE e.operator = "And" -> CompileAnd(c, e)
      [] e.operator = "Or" -> CompileOr(c, e)
      [] OTHER -> emit(CompileExpr(CompileExpr(c, e.left), e.right), Op0(e.operator))

CompileAssign(c, e) == StoreBack(CompileExpr(c, e.value), e.name)

CompileCall(c, e) ==
    emit(CompileExprs(CompileExpr(c, e.callee), e.arguments),
         Op("Call", Len(e.arguments)))

\* the MethodCall arm once the object's type names a type: the method's
\* function is loaded as a constant, then self, the arguments and Call
CompileMethodCallOn(c, e, type_name) ==
    IF type_name \notin DOMAIN c.methods
       \/ e.method \notin DOMAIN c.methods[type_name]
    THEN CErr(c, "UndefinedVariable")
    ELSE emit(CompileExprs(
                  CompileExpr(emit_const(c, VFunction(c.methods[type_name][e.method])),
                              e.object),
                  e.arguments),
              Op("Call", Len(e.arguments) + 1))

MethodTypeName(c, e, obj_type) ==
    IF obj_type.k \in {"Struct", "Named"}
    THEN CompileMethodCallOn(c, e, obj_type.name)
    ELSE CErr(c, "UndefinedVariable")

CompileMethodCall(c, e) == MethodTypeName(c, e, infer_expression_type(c, e.object))

CompileArray(c, e) == emit(CompileExprs(c, e.elements), Op("NewArray", Len(e.elements)))

CompileIndex(c, e) ==
    emit(CompileExpr(CompileExpr(c, e.object), e.index), Op0("ArrayGet"))

\* the IndexAssign arm without the store back into the variable
CompileIndexAssignNoStore(c, e) ==
    emit(CompileExpr(CompileExpr(CompileExpr(c, e.object), e.index), e.value),
         Op0("ArraySet"))

\* the loop over the declared fields of a struct literal: the value written
\* for each declared field, in declaration order
RECURSIVE CompileLiteralFields(_, _, _)
CompileLiteralFields(c, defined, fields) ==
    IF c.err # "ok" \/ defined = <<>> THEN c
    ELSE IF Position(fields, Head(defined).name) < 0 THEN CErr(c, "UndefinedField")
    ELSE CompileLiteralFields(
            CompileExpr(c, fields[Position(fields, Head(defined).name) + 1].value),
            Tail(defined), fields)

\* the StructLiteral arm that evaluates the fields in the order written
CompileStructLiteralAsWritten(c, e) ==
    IF e.struct_name \notin DOMAIN c.structs THEN CErr(c, "UndefinedStruct")
    ELSE LET struct_def == c.structs[e.struct_name]
             c1 == CompileExprs(c, [i \in DOMAIN e.fields |-> e.fields[i].value])
         IN emit(emit_const(c1, VString(e.struct_name)),
                 Op("NewStruct", Len(struct_def.fields)))

CompileStructLiteral(c, e) ==
    IF e.struct_name \notin DOMAIN c.structs THEN CErr(c, "UndefinedStruct")
    ELSE LET struct_def == c.structs[e.struct_name]
             c1 == CompileLiteralFields(c, struct_def.fields, e.fields)
         IN emit(emit_const(c1, VString(e.struct_name)),
                 Op("NewStruct", Len(struct_def.fields)))

\* the FieldGet whose operand is inferred once the object has been compiled
FieldGet(c, e) == emit(c, Op("FieldGet", FieldIndex(c, e.object, e.field)))

CompileFieldAccess(c, e) == FieldGet(CompileExpr(c, e.object), e)

CompileFieldAssign(c, e) ==
    StoreBackThrough(emit(CompileExpr(CompileExpr(c, e.object), e.value),
                          Op("FieldSet", FieldIndex(c, e.object, e.field))),
                     e.object)

CompileIndexAssign(c, e) ==
    StoreBackThrough(emit(CompileExpr(CompileExpr(CompileExpr(c, e.object), e.index),
                                      e.value),
                          Op0("ArraySet")),
                     e.object)

CompileExpr(c, e) ==
    IF c.err # "ok" THEN c
    ELSE CASE e.k = "Integer" -> emit_const(c, VInteger(e.v))
           [] e.k = "String" -> emit_const(c, VString(e.v))
           [] e.k = "Boolean" -> emit_const(c, VBoolean(e.v))
           [] e.k = "Identifier" -> CompileIdentifier(c, e)
           [] e.k = "Binary" -> CompileBinary(c, e)
           [] e.k = "Unary" -> emit(CompileExpr(c, e.operand), Op0(e.operator))
           [] e.k = "Assign" -> CompileAssign(c, e)
           [] e.k = "Call" -> CompileCall(c, e)
           [] e.k = "Array" -> CompileArray(c, e)
           [] e.k = "Index" -> CompileIndex(c, e)
           [] e.k = "IndexAssign" -> CompileIndexAssign(c, e)
           [] e.k = "StructLiteral" -> CompileStructLiteral(c, e)
           [] e.k = "FieldAccess" -> CompileFieldAccess(c, e)
           [] e.k = "FieldAssign" -> CompileFieldAssign(c, e)
           [] e.k = "MethodCall" -> CompileMethodCall(c, e)

RECURSIVE AddParams(_, _)
AddParams(c, parameters) ==
    IF parameters = <<>> \/ c.err # "ok" THEN c
    ELSE LET c1 == add_local(c, Head(parameters).name, FALSE)
             c2 == IF c1.err = "ok" /\ IsSome(Head(parameters).type_annotation)
                   THEN [c1 EXCEPT !.local_types =
                            Append(@, [name |-> Head(parameters).name,
                                       var_type |-> Head(parameters).type_annotation])]
                   ELSE c1
         IN AddParams(c2, Tail(parameters))

\* compile_function: a fresh compiler, one scope, the parameters as the first
\* locals, the body, then LoadNull; Return.  The result carries the error of
\* the inner compiler, if any.
compile_function(c, name, parameters, body) ==
    LET fc0 == AddParams(begin_scope([NewCompiler EXCEPT !.structs = c.structs,
                                                         !.methods = c.methods]),
                         parameters)
        fc1 == CompileStmts(fc0, body)
        fc2 == emit(emit(fc1, Op0("LoadNull")), Op0("Return"))
    IN [err |-> fc2.err,
        function |-> [name |-> name, arity |-> Len(parameters), chunk |-> fc2.chunk,
                      locals_count |-> Len(fc2.locals)]]

CompileVarDeclaration(c, s) ==
    LET var_type == IF IsSome(s.type_annotation) THEN s.type_annotation
                    ELSE IF IsSome(s.initializer)
                    THEN infer_expression_type(c, s.initializer)
                    ELSE TNull
        c1 == IF IsSome(s.initializer) THEN CompileExpr(c, s.initializer)
              ELSE emit(c, Op0("LoadNull"))
        c2 == IF c1.scope_depth = 0
              THEN emit(emit_global(c1, "StoreGlobal", s.name), Op0("Pop"))
              ELSE add_local(c1, s.name, s.mutable)
    IN IF c2.err # "ok" THEN c2
       ELSE IF c1.scope_depth = 0
       THEN [c2 EXCEPT !.global_types = MapPut(@, s.name, var_type)]
       ELSE [c2 EXCEPT !.local_types = Append(@, [name |-> s.name,
                                                  var_type |-> var_type])]

CompileFnDeclaration(c, s) ==
    LET f == compile_function(c, s.name, s.parameters, s.body)
        c1 == emit_const(c, VFunction(f.function))
    IN IF f.err # "ok" THEN CErr(c, f.err)
       ELSE IF c.scope_depth = 0
       THEN emit(emit_global(c1, "StoreGlobal", s.name), Op0("Pop"))
       ELSE add_local(c1, s.name, FALSE)

\* the impl block: every method is compiled as the function "Type.method"
\* with self as its first parameter, against the method table as it is before
\* the block, then `self.methods.insert(type_name, method_map)`
RECURSIVE CompileMethods(_, _, _, _)
MethodCompiled(c, f, name, type_name, rest, method_map) ==
    IF f.err # "ok" THEN CErr(c, f.err)
    ELSE CompileMethods(c, type_name, rest, MapPut(method_map, name, f.function))

CompileMethods(c, type_name, methods, method_map) ==
    IF methods = <<>>
    THEN [c EXCEPT !.methods = MapPut(@, type_name, method_map)]
    ELSE MethodCompiled(
            c,
            compile_function(c, type_name \o "." \o Head(methods).name,
                             <<Parameter("self", TNamed(type_name))>>
                                 \o Head(methods).parameters,
                             Head(methods).body),
            Head(methods).name, type_name, Tail(methods), method_map)

CompileImplBlock(c, s) == CompileMethods(c, s.type_name, s.methods, EmptyMap)

CompileReturn(c, s) ==
    emit(IF IsSome(s.value) THEN CompileExpr(c, s.value) ELSE emit(c, Op0("LoadNull")),
         Op0("Return"))

\* ghost: the extent of a compiled if, while or for statement in the chunk
mark(c, kind, start, loop_start) ==
    IF c.err # "ok" THEN c
    ELSE [c EXCEPT !.chunk.marks = Append(@, [k |-> kind, start |-> start,
                                              loop_start |-> loop_start,
                                              end |-> ChunkLen(c)])]

\* CompileIf without the Pop on the path taken when the condition is false
CompileIfNoElsePop(c, s) ==
    LET c1 == CompileExpr(c, s.condition)
        then_jump == ChunkLen(c1)
        c2 == emit(emit_jump(c1, "JumpIfFalse"), Op0("Pop"))
        c3 == end_scope(CompileStmts(begin_scope(c2), s.then_branch))
        else_jump == ChunkLen(c3)
        c4 == patch_jump(emit_jump(c3, "Jump"), then_jump)
        c5 == IF IsSome(s.else_branch)
              THEN end_scope(CompileStmts(begin_scope(c4), s.else_branch.v))
              ELSE c4
    IN mark(patch_jump(c5, else_jump), "If", ChunkLen(c), ChunkLen(c))

CompileIf(c, s) ==
    LET c1 == CompileExpr(c, s.condition)
        then_jump == ChunkLen(c1)
        c2 == emit(emit_jump(c1, "JumpIfFalse"), Op0("Pop"))
        c3 == end_scope(CompileStmts(begin_scope(c2), s.then_branch))
        else_jump == ChunkLen(c3)
        c4 == emit(patch_jump(emit_jump(c3, "Jump"), then_jump), Op0("Pop"))
        c5 == IF IsSome(s.else_branch)
              THEN end_scope(CompileStmts(begin_scope(c4), s.else_branch.v))
              ELSE c4
    IN mark(patch_jump(c5, else_jump), "If", ChunkLen(c), ChunkLen(c))

PushLoop(c, loop_start) ==
    IF c.err # "ok" THEN c
    ELSE [c EXCEPT !.loop_starts = Append(@, loop_start),
                   !.loop_breaks = Append(@, <<>>)]

\* patch every recorded break of the innermost loop, then pop both loop stacks
PopLoop(c) ==
    IF c.err # "ok" THEN c
    ELSE [patch_jumps(c, c.loop_breaks[Len(c.loop_breaks)]) EXCEPT
            !.loop_breaks = SubSeq(@, 1, Len(@) - 1),
            !.loop_starts = SubSeq(@, 1, Len(@) - 1)]

CompileWhile(c, s) ==
    LET loop_start == ChunkLen(c)
        c1 == CompileExpr(PushLoop(c, loop_start), s.condition)
        exit_jump == ChunkLen(c1)
        c2 == emit(emit_jump(c1, "JumpIfFalse"), Op0("Pop"))
        c3 == end_scope(CompileStmts(begin_scope(c2), s.body))
        c4 == emit(patch_jump(emit(c3, Op("Loop", loop_start)), exit_jump), Op0("Pop"))
    IN mark(PopLoop(c4), "While", loop_start, loop_start)

CompileFor(c, s) ==
    LET c1 == add_local(CompileExpr(begin_scope(c), s.start), s.variable, TRUE)
        c2 == CompileExpr(c1, s.end)
        end_local == Len(c2.locals)
        c3 == add_local(c2, "__end__", FALSE)
        loop_start == ChunkLen(c3)
        var_slot == resolve_local(c3, s.variable)
        c4 == emit(emit(emit(PushLoop(c3, loop_start), Op("LoadLocal", var_slot)),
                        Op("LoadLocal", end_local)), Op0("Less"))
        exit_jump == ChunkLen(c4)
        c5 == emit(emit_jump(c4, "JumpIfFalse"), Op0("Pop"))
        c6 == CompileStmts(c5, s.body)
        c7 == emit(emit(emit(emit_const(emit(c6, Op("LoadLocal", var_slot)), VInteger(1)),
                             Op0("Add")), Op("StoreLocal", var_slot)), Op0("Pop"))
        c8 == emit(patch_jump(emit(c7, Op("Loop", loop_start)), exit_jump), Op0("Pop"))
    IN mark(end_scope(PopLoop(c8)), "For", ChunkLen(c), loop_start)

CompileBreak(c) ==
    IF Len(c.loop_breaks) = 0 THEN CErr(c, "InvalidBreakContinue")
    ELSE [emit_jump(c, "Jump") EXCEPT
            !.loop_breaks[Len(c.loop_breaks)] = Append(@, ChunkLen(c))]

\* a Continue arm that emits nothing
CompileContinueNothing(c) ==
    IF Len(c.loop_starts) = 0 THEN CErr(c, "InvalidBreakContinue") ELSE c

CompileContinue(c) ==
    IF Len(c.loop_starts) = 0 THEN CErr(c, "InvalidBreakContinue")
    ELSE emit(c, Op("Loop", c.loop_starts[Len(c.loop_starts)]))

CompileStmt(c, s) ==
    IF c.err # "ok" THEN c
    ELSE CASE s.k = "Expression" -> emit(CompileExpr(c, s.expr), Op0("Pop"))
           [] s.k = "StructDeclaration" ->
                [c EXCEPT !.structs = MapPut(@, s.name, [fields |-> s.fields])]
           [] s.k = "TypeAlias" -> c
           [] s.k = "VarDeclaration" -> CompileVarDeclaration(c, s)
           [] s.k = "FnDeclaration" -> CompileFnDeclaration(c, s)
           [] s.k = "ImplBlock" -> CompileImplBlock(c, s)
           [] s.k = "Return" -> CompileReturn(c, s)
           [] s.k = "If" -> CompileIf(c, s)
           [] s.k = "While" -> CompileWhile(c, s)
           [] s.k = "For" -> CompileFor(c, s)
           [] s.k = "Print" -> emit(CompileExpr(c, s.value), Op0("Print"))
           [] s.k = "Block" -> end_scope(CompileStmts(begin_scope(c), s.statements))
           [] s.k = "Break" -> CompileBreak(c)
           [] s.k = "Continue" -> CompileContinue(c)

\* Compiler::compile on a fresh compiler: the statements, then Halt
compile(program) == emit(CompileStmts(NewCompiler, program), Op0("Halt"))

(***************************************************************************)
(* vm: VM.  A VM state is [stack, frames, globals, output, phase]; each     *)
(* Exec operator is the effect of one opcode family on it.                 *)
(***************************************************************************)
NewVM(c) ==
    [stack |-> <<>>,
     frames |-> <<[function |-> [name |-> "<script>", arity |-> 0, chunk |-> c,
                                 locals_count |-> 0],
                   ip |-> 0, base |-> 0]>>,
     globals |-> EmptyMap, output |-> <<>>, phase |-> "run"]

Frame(vm) == vm.frames[Len(vm.frames)]
Fetch(vm) == Frame(vm).function.chunk.code[Frame(vm).ip + 1]
Constant(vm, i) == Frame(vm).function.chunk.constants[i + 1]

RuntimeError(vm) == [vm EXCEPT !.phase = "error"]

Advance(vm) == [vm EXCEPT !.frames[Len(vm.frames)].ip = @ + 1]
Goto(vm, target) == [vm EXCEPT !.frames[Len(vm.frames)].ip = target]

Push(vm, v) == [vm EXCEPT !.stack = Append(@, v)]
Drop(vm, n) == [vm EXCEPT !.stack = SubSeq(@, 1, Len(@) - n)]
Peek(vm, d) == vm.stack[Len(vm.stack) - d]

IsFalsy(v) ==
    \/ v.t = "Null"
    \/ v.t = "Boolean" /\ ~v.v
    \/ v.t = "Integer" /\ v.v = 0

ValueEq(a, b) == a.t = b.t /\ a.v = b.v

ExecLoad(vm, op) ==
    CASE op.op = "LoadConst" -> Advance(Push(vm, Constant(vm, op.a)))
      [] op.op = "LoadNull" -> Advance(Push(vm, VNull))
      [] op.op = "LoadLocal" ->
            IF Frame(vm).base + op.a + 1 \in 1..Len(vm.stack)
            THEN Advance(Push(vm, vm.stack[Frame(vm).base + op.a + 1]))
            ELSE RuntimeError(vm)
      [] op.op = "LoadGlobal" ->
            IF Constant(vm, op.a).v \in DOMAIN vm.globals
            THEN Advance(Push(vm, vm.globals[Constant(vm, op.a).v]))
            ELSE RuntimeError(vm)

ExecStore(vm, op) ==
    IF Len(vm.stack) = 0 THEN RuntimeError(vm)
    ELSE CASE op.op = "StoreLocal" ->
                IF Frame(vm).base + op.a + 1 \in 1..Len(vm.stack)
                THEN Advance([vm EXCEPT !.stack[Frame(vm).base + op.a + 1] = Peek(vm, 0)])
                ELSE RuntimeError(vm)
           [] op.op = "StoreGlobal" ->
                Advance([vm EXCEPT !.globals = MapPut(@, Constant(vm, op.a).v, Peek(vm, 0))])

ExecPop(vm, op) ==
    IF Len(vm.stack) = 0 THEN RuntimeError(vm) ELSE Advance(Drop(vm, 1))

ExecBinary(vm, op) ==
    IF Len(vm.stack) < 2 THEN RuntimeError(vm)
    ELSE LET a == Peek(vm, 1)
             b == Peek(vm, 0)
             res(v) == Advance(Push(Drop(vm, 2), v))
         IN IF op.op \in {"Equal", "NotEqual"}
            THEN IF a.t = "Function" \/ b.t = "Function" THEN RuntimeError(vm)
                 ELSE res(VBoolean(ValueEq(a, b) <=> op.op = "Equal"))
            ELSE IF a.t # "Integer" \/ b.t # "Integer" THEN RuntimeError(vm)
            ELSE IF op.op \in {"Divide", "Modulo"} /\ b.v = 0 THEN RuntimeError(vm)
            ELSE CASE op.op = "Add" -> res(VInteger(a.v + b.v))
                   [] op.op = "Subtract" -> res(VInteger(a.v - b.v))
                   [] op.op = "Multiply" -> res(VInteger(a.v * b.v))
                   [] op.op = "Divide" -> res(VInteger(a.v \div b.v))
                   [] op.op = "Modulo" -> res(VInteger(a.v % b.v))
                   [] op.op = "Less" -> res(VBoolean(a.v < b.v))
                   [] op.op = "LessEqual" -> res(VBoolean(a.v <= b.v))
                   [] op.op = "Greater" -> res(VBoolean(a.v > b.v))
                   [] op.op = "GreaterEqual" -> res(VBoolean(a.v >= b.v))

ExecUnary(vm, op) ==
    IF Len(vm.stack) = 0 THEN RuntimeError(vm)
    ELSE LET a == Peek(vm, 0)
         IN CASE op.op = "Not" /\ a.t = "Boolean" ->
                    Advance(Push(Drop(vm, 1), VBoolean(~a.v)))
              [] op.op = "Negate" /\ a.t = "Integer" ->
                    Advance(Push(Drop(vm, 1), VInteger(0 - a.v)))
              [] OTHER -> RuntimeError(vm)

\* Jump, Loop: ip := target.  JumpIfFalse / JumpIfTrue peek at the top and
\* leave it in place on both paths.
ExecJump(vm, op) ==
    CASE op.op \in {"Jump", "Loop"} -> Goto(vm, op.a)
      [] op.op = "JumpIfFalse" ->
            IF Len(vm.stack) = 0 THEN RuntimeError(vm)
            ELSE IF IsFalsy(Peek(vm, 0)) THEN Goto(vm, op.a) ELSE Advance(vm)
      [] op.op = "JumpIfTrue" ->
            IF Len(vm.stack) = 0 THEN RuntimeError(vm)
            ELSE IF ~IsFalsy(Peek(vm, 0)) THEN Goto(vm, op.a) ELSE Advance(vm)

Nulls(n) == [i \in 1..n |-> VNull]

\* Call(n): the callee is at stack[top - n]; locals_count - n Null slots are
\* pushed; the new frame has base = top - n + 1.
ExecCall(vm, op) ==
    IF Len(vm.stack) < op.a + 1 THEN RuntimeError(vm)
    ELSE LET callee == Peek(vm, op.a)
         IN IF callee.t # "Function" THEN RuntimeError(vm)
            ELSE IF callee.v.arity # op.a THEN RuntimeError(vm)
            ELSE LET base == Len(vm.stack) - op.a
                     extra == IF callee.v.locals_count > op.a
                              THEN callee.v.locals_count - op.a ELSE 0
                     caller == Advance(vm)
                 IN [caller EXCEPT
                        !.stack = @ \o Nulls(extra),
                        !.frames = Append(@, [function |-> callee.v, ip |-> 0,
                                              base |-> base])]

\* Return: the value replaces the callee at stack[base - 1], everything above
\* is discarded and the frame is popped.
ExecReturn(vm, op) ==
    IF Len(vm.stack) = 0 \/ Len(vm.frames) < 2 \/ Frame(vm).base < 1
       \/ Frame(vm).base > Len(vm.stack)
    THEN RuntimeError(vm)
    ELSE [vm EXCEPT !.stack = Append(SubSeq(@, 1, Frame(vm).base - 1), Peek(vm, 0)),
                    !.frames = SubSeq(@, 1, Len(@) - 1)]

ExecPrint(vm, op) ==
    IF Len(vm.stack) = 0 THEN RuntimeError(vm)
    ELSE Advance([Drop(vm, 1) EXCEPT !.output = Append(@, Peek(vm, 0))])

ExecArray(vm, op) ==
    CASE op.op = "NewArray" ->
            IF Len(vm.stack) < op.a THEN RuntimeError(vm)
            ELSE Advance(Push(Drop(vm, op.a),
                              VArray(SubSeq(vm.stack, Len(vm.stack) - op.a + 1,
                                            Len(vm.stack)))))
      [] op.op = "ArrayGet" ->
            IF Len(vm.stack) < 2 THEN RuntimeError(vm)
            ELSE LET arr == Peek(vm, 1)
                     idx == Peek(vm, 0)
                 IN IF arr.t # "Array" \/ idx.t # "Integer" THEN RuntimeError(vm)
                    ELSE IF idx.v < 0 \/ idx.v >= Len(arr.v) THEN RuntimeError(vm)
                    ELSE Advance(Push(Drop(vm, 2), arr.v[idx.v + 1]))
      [] op.op = "ArraySet" ->
            IF Len(vm.stack) < 3 THEN RuntimeError(vm)
            ELSE LET arr == Peek(vm, 2)
                     idx == Peek(vm, 1)
                     value == Peek(vm, 0)
                 IN IF arr.t # "Array" \/ idx.t # "Integer" THEN RuntimeError(vm)
                    ELSE IF idx.v < 0 \/ idx.v >= Len(arr.v) THEN RuntimeError(vm)
                    ELSE Advance(Push(Drop(vm, 3),
                                      VArray([arr.v EXCEPT ![idx.v + 1] = value])))

\* NewStruct n: pop the name, pop n field values; FieldGet i: pop the struct,
\* push field i; FieldSet i: pop the value and the struct, push the struct
\* with field i replaced
ExecStruct(vm, op) ==
    CASE op.op = "NewStruct" ->
            IF Len(vm.stack) < op.a + 1 \/ Peek(vm, 0).t # "String" THEN RuntimeError(vm)
            ELSE Advance(Push(Drop(vm, op.a + 1),
                              VStruct(Peek(vm, 0).v,
                                      SubSeq(vm.stack, Len(vm.stack) - op.a,
                                             Len(vm.stack) - 1))))
      [] op.op = "FieldGet" ->
            IF Len(vm.stack) < 1 THEN RuntimeError(vm)
            ELSE LET obj == Peek(vm, 0)
                 IN IF obj.t # "Struct" THEN RuntimeError(vm)
                    ELSE IF op.a >= Len(obj.fields) THEN RuntimeError(vm)
                    ELSE Advance(Push(Drop(vm, 1), obj.fields[op.a + 1]))
      [] op.op = "FieldSet" ->
            IF Len(vm.stack) < 2 THEN RuntimeError(vm)
            ELSE LET obj == Peek(vm, 1)
                     value == Peek(vm, 0)
                 IN IF obj.t # "Struct" THEN RuntimeError(vm)
                    ELSE IF op.a >= Len(obj.fields) THEN RuntimeError(vm)
                    ELSE Advance(Push(Drop(vm, 2),
                                      [obj EXCEPT !.fields[op.a + 1] = value]))

ExecHalt(vm, op) == [vm EXCEPT !.phase = "halt"]

(***************************************************************************)
(* The programs the pipeline is run on.  A program is named by its family  *)
(* and three parameters.                                                   *)
(***************************************************************************)
MaxK == 7          \* while family: the values of i at which to continue / break
MaxIndex == 2      \* array family: the largest index assigned
MaxShape == 4      \* the number of program shapes in each family
MaxOperand == 4    \* short-circuit family: the operands tried for a and b
MaxSteps == 156    \* while family: the instructions a run may take
MaxRun == 200      \* the instructions the machine is followed for

Ident(n) == EIdent(n)
Call0(f) == ECall(EIdent(f), <<>>)
Let(name, init) == SVar(name, FALSE, None, init)
Var(name, init) == SVar(name, TRUE, None, init)

\* var i = 0; while i < limit { i = i + 1; if i == s { continue; }
\*                              if i == b { break; } print(i); }
WhileProgram(limit, s, b) ==
    << Var("i", EInt(0)),
       SWhile(EBinary(Ident("i"), "Less", EInt(limit)),
              << SExpr(EAssign("i", EBinary(Ident("i"), "Add", EInt(1)))),
                 SIf(EBinary(Ident("i"), "Equal", EInt(s)), <<SContinue>>, None),
                 SIf(EBinary(Ident("i"), "Equal", EInt(b)), <<SBreak>>, None),
                 SPrint(Ident("i")) >>) >>

\* fn crash() { print(99); return true; }  fn zero() { return 0; }
\* fn one() { return 1; }
ShortCircuitPrelude ==
    << SFn(Private, "crash", <<>>, None, <<SPrint(EInt(99)), SReturn(EBool(TRUE))>>),
       SFn(Private, "zero", <<>>, None, <<SReturn(EInt(0))>>),
       SFn(Private, "one", <<>>, None, <<SReturn(EInt(1))>>) >>

Operand(i) ==
    CASE i = 1 -> EBool(FALSE)
      [] i = 2 -> EBool(TRUE)
      [] i = 3 -> Call0("zero")
      [] OTHER -> Call0("one")

And(a, b) == EBinary(a, "And", b)
Or(a, b) == EBinary(a, "Or", b)

ShortCircuitExpr(shape, a, b) ==
    CASE shape = 1 -> And(Operand(a), Call0("crash"))
      [] shape = 2 -> Or(Operand(a), Call0("crash"))
      [] shape = 3 -> Or(And(Operand(a), Operand(b)), Call0("crash"))
      [] OTHER -> And(Operand(a), Or(Operand(b), Call0("crash")))

\* var r = <a op b>; print(r);
ShortCircuitProgram(shape, a, b) ==
    ShortCircuitPrelude \o
    << Var("r", ShortCircuitExpr(shape, a, b)), SPrint(Ident("r")) >>

ArrayLiteral == EArray([i \in 1..(MaxIndex + 1) |-> EInt(i)])

PrintElements(name) ==
    [i \in 1..(MaxIndex + 1) |-> SPrint(EIndex(Ident(name), EInt(i - 1)))]

\* let a = [1,2,3]; let b = a; b[i] = 9; print(a[0]); ...; print(b[0]); ...
ArrayBody(i) ==
    << Let("a", ArrayLiteral), Let("b", Ident("a")),
       SExpr(EIndexAssign(Ident("b"), EInt(i), EInt(9))) >>
    \o PrintElements("a") \o PrintElements("b")

ArrayProgram(shape, i) ==
    CASE shape = 1 -> ArrayBody(i)
      [] shape = 2 -> << SBlock(ArrayBody(i)) >>
      [] shape = 3 ->
            << SFn(Private, "f", <<Parameter("a", None), Parameter("b", None)>>, None,
                   << SExpr(EIndexAssign(Ident("b"), EInt(i), EInt(9))) >>
                   \o PrintElements("a") \o PrintElements("b")),
               Let("x", ArrayLiteral),
               SExpr(ECall(Ident("f"), <<Ident("x"), Ident("x")>>)) >>
            \o PrintElements("x")
      [] OTHER ->
            << Let("a", ArrayLiteral), Let("c", Ident("a")), Let("b", Ident("c")),
               SExpr(EIndexAssign(Ident("b"), EInt(i), EInt(9))) >>
            \o PrintElements("a") \o PrintElements("b") \o PrintElements("c")

\* functions with parameters and locals, called with the arguments p and q
FunctionProgram(shape, p, q) ==
    CASE shape = 1 ->
            \* fn f(p) { let x = p + 1; print(p); print(x); }  f(p);
            << SFn(Private, "f", <<Parameter("p", None)>>, None,
                   << Let("x", EBinary(Ident("p"), "Add", EInt(1))),
                      SPrint(Ident("p")), SPrint(Ident("x")) >>),
               SExpr(ECall(Ident("f"), <<EInt(p)>>)) >>
      [] shape = 2 ->
            \* fn f(p, q) { let x = q; var y = p; y = y + x; print(x); print(y);
            \*              return y; }  print(f(p, q));
            << SFn(Private, "f", <<Parameter("p", None), Parameter("q", None)>>, None,
                   << Let("x", Ident("q")), Var("y", Ident("p")),
                      SExpr(EAssign("y", EBinary(Ident("y"), "Add", Ident("x")))),
                      SPrint(Ident("x")), SPrint(Ident("y")), SReturn(Ident("y")) >>),
               SPrint(ECall(Ident("f"), <<EInt(p), EInt(q)>>)) >>
      [] shape = 3 ->
            \* fn f(p) { if p < q { let x = p; print(x); } print(p); }  f(p);
            << SFn(Private, "f", <<Parameter("p", None)>>, None,
                   << SIf(EBinary(Ident("p"), "Less", EInt(q)),
                          << Let("x", Ident("p")), SPrint(Ident("x")) >>, None),
                      SPrint(Ident("p")) >>),
               SExpr(ECall(Ident("f"), <<EInt(p)>>)) >>
      [] OTHER ->
            \* fn f(p: int, q: int) -> int { print(q); return p - q; }
            \* print(-f(p, q));
            << SFn(Private, "f", <<Parameter("p", TInt), Parameter("q", TInt)>>, TInt,
                   << SPrint(Ident("q")),
                      SReturn(EBinary(Ident("p"), "Subtract", Ident("q"))) >>),
               SPrint(EUnary("Negate", ECall(Ident("f"), <<EInt(p), EInt(q)>>))) >>

MaxEnd == 3        \* for, loop and cond families: the largest loop limit
MaxForSteps == 100 \* for family: the instructions a run may take

Less(l, r) == EBinary(l, "Less", r)
Equal(l, r) == EBinary(l, "Equal", r)
Incr(name) == SExpr(EAssign(name, EBinary(Ident(name), "Add", EInt(1))))

\* shape 1: for x in s..e { print(x); }
\* shape 2: for x in s..e { if x == s + 1 { continue; } print(x); }
\* shape 3: { let t = 7; for x in s..e { print(x); } print(t); }
\* shape 4: for x in s..e { print(x); continue; }
ForProgram(shape, s, e) ==
    CASE shape = 1 -> << SFor("x", EInt(s), EInt(e), <<SPrint(Ident("x"))>>) >>
      [] shape = 2 ->
           << SFor("x", EInt(s), EInt(e),
                   << SIf(Equal(Ident("x"), EInt(s + 1)), <<SContinue>>, None),
                      SPrint(Ident("x")) >>) >>
      [] shape = 3 ->
           << SBlock(<< Let("t", EInt(7)),
                        SFor("x", EInt(s), EInt(e), <<SPrint(Ident("x"))>>),
                        SPrint(Ident("t")) >>) >>
      [] OTHER -> << SFor("x", EInt(s), EInt(e), <<SPrint(Ident("x")), SContinue>>) >>

\* shape 1: var i = 0; while i < n { let t = i; i = i + 1; print(t); }
\* shape 2: var i = 0; while i < n { let t = i; i = i + 1;
\*                                   if t == 1 { break; } print(t); }
\* shape 3: var i = 0; while i < n { let t = i; i = i + 1;
\*                                   if t == 1 { continue; } print(t); }
\* shape 4: for x in 0..n { let t = x; print(t); }
LoopProgram(shape, n) ==
    CASE shape = 1 ->
           << Var("i", EInt(0)),
              SWhile(Less(Ident("i"), EInt(n)),
                     << Let("t", Ident("i")), Incr("i"), SPrint(Ident("t")) >>) >>
      [] shape = 2 ->
           << Var("i", EInt(0)),
              SWhile(Less(Ident("i"), EInt(n)),
                     << Let("t", Ident("i")), Incr("i"),
                        SIf(Equal(Ident("t"), EInt(1)), <<SBreak>>, None),
                        SPrint(Ident("t")) >>) >>
      [] shape = 3 ->
           << Var("i", EInt(0)),
              SWhile(Less(Ident("i"), EInt(n)),
                     << Let("t", Ident("i")), Incr("i"),
                        SIf(Equal(Ident("t"), EInt(1)), <<SContinue>>, None),
                        SPrint(Ident("t")) >>) >>
      [] OTHER ->
           << SFor("x", EInt(0), EInt(n),
                   << Let("t", Ident("x")), SPrint(Ident("t")) >>) >>

\* shape 1: if p < q { print(1); } print(3);
\* shape 2: if p < q { print(1); } else { print(2); } print(3);
\* shape 3: var i = p; while i < q { i = i + 1; } print(i);
\* shape 4: { let t = 5; if p < q { print(1); } else { print(2); }
\*            var i = p; while i < q { i = i + 1; } print(t); print(i); }
CondProgram(shape, p, q) ==
    CASE shape = 1 ->
           << SIf(Less(EInt(p), EInt(q)), <<SPrint(EInt(1))>>, None), SPrint(EInt(3)) >>
      [] shape = 2 ->
           << SIf(Less(EInt(p), EInt(q)), <<SPrint(EInt(1))>>, Some(<<SPrint(EInt(2))>>)),
              SPrint(EInt(3)) >>
      [] shape = 3 ->
           << Var("i", EInt(p)),
              SWhile(Less(Ident("i"), EInt(q)), <<Incr("i")>>),
              SPrint(Ident("i")) >>
      [] OTHER ->
           << SBlock(<< Let("t", EInt(5)),
                        SIf(Less(EInt(p), EInt(q)), <<SPrint(EInt(1))>>,
                            Some(<<SPrint(EInt(2))>>)),
                        Var("i", EInt(p)),
                        SWhile(Less(Ident("i"), EInt(q)), <<Incr("i")>>),
                        SPrint(Ident("t")), SPrint(Ident("i")) >>) >>

\* return family: a declared return type and an expression of another type
ReturnType(a) == CASE a = 1 -> TInt [] a = 2 -> TBool [] OTHER -> TString
GoodValue(a) == CASE a = 1 -> EInt(1) [] a = 2 -> EBool(TRUE) [] OTHER -> EStr("s")
BadValue(a) == CASE a = 1 -> EBool(TRUE) [] a = 2 -> EInt(1) [] OTHER -> EInt(1)

Fn0(name, ret, body) == SFn(Private, name, <<>>, ret, body)

\* shape 1: fn f() -> R { return bad; }
\* shape 2: fn f() -> R { fn g() -> R { return good; } return bad; }
\* shape 3: fn f() -> R { return bad; fn g() -> R { return good; } }
\* shape 4: fn f() -> R { if true { return bad; } return good; }
ReturnProgram(shape, a) ==
    LET R == ReturnType(a)
        g == Fn0("g", R, <<SReturn(GoodValue(a))>>)
    IN CASE shape = 1 -> << Fn0("f", R, <<SReturn(BadValue(a))>>) >>
         [] shape = 2 -> << Fn0("f", R, <<g, SReturn(BadValue(a))>>) >>
         [] shape = 3 -> << Fn0("f", R, <<SReturn(BadValue(a)), g>>) >>
         [] OTHER -> << Fn0("f", R, << SIf(EBool(TRUE), <<SReturn(BadValue(a))>>, None),
                                       SReturn(GoodValue(a)) >>) >>

\* nested family: break (a = 0) or continue (a = 1) in functions and loops
\* shape 1: while true { fn f() { break; } break; }
\* shape 2: for x in 0..1 { fn f() { break; } }
\* shape 3: fn f() { while true { print(1); break; } }  f();
\* shape 4: fn f() { break; }
NestedProgram(shape, a) ==
    LET jump == IF a = 0 THEN SBreak ELSE SContinue
    IN CASE shape = 1 ->
              << SWhile(EBool(TRUE), << Fn0("f", None, <<jump>>), SBreak >>) >>
         [] shape = 2 ->
              << SFor("x", EInt(0), EInt(1), << Fn0("f", None, <<jump>>) >>) >>
         [] shape = 3 ->
              << Fn0("f", None, << SWhile(EBool(TRUE), <<SPrint(EInt(1)), SBreak>>) >>),
                 SExpr(Call0("f")) >>
         [] OTHER -> << Fn0("f", None, <<jump>>) >>

MaxPerm == 6       \* literal family: the orders in which three fields are written
MaxBad == 5        \* badliteral family: the ways a literal departs from the declaration
MaxField == 2      \* field family: the index of the field accessed

\* struct P { x: int, y: int, z: int }
FieldNames == <<"x", "y", "z">>
StructP == SStruct(Private, "P", [i \in 1..3 |-> StructField(FieldNames[i], TInt)])

\* the a-th order of the three fields
Permutation(a) ==
    CASE a = 1 -> <<1, 2, 3>>
      [] a = 2 -> <<1, 3, 2>>
      [] a = 3 -> <<2, 1, 3>>
      [] a = 4 -> <<2, 3, 1>>
      [] a = 5 -> <<3, 1, 2>>
      [] OTHER -> <<3, 2, 1>>

\* fn t(v: int) -> int { print(v); return v; }
Tell == SFn(Private, "t", <<Parameter("v", TInt)>>, TInt,
            << SPrint(Ident("v")), SReturn(Ident("v")) >>)

\* P { f: t(i), .. } or P { f: i, .. } with the fields in the a-th order; field
\* number i is given the value i
LiteralP(a, told) ==
    EStructLiteral("P",
        [n \in 1..3 |->
            FieldInit(FieldNames[Permutation(a)[n]],
                      IF told THEN ECall(Ident("t"), <<EInt(Permutation(a)[n])>>)
                      ELSE EInt(Permutation(a)[n]))])

PrintFields(o) == [i \in 1..3 |-> SPrint(EFieldAccess(o, FieldNames[i]))]

\* shape 1: struct P; fn t; var p = P { .. t(i) .. }; print(p.x); print(p.y); print(p.z);
\* shape 2: struct P; { let p = P { .. }; print(p.x); print(p.y); print(p.z); }
\* shape 3: struct P; fn t; let p: P = P { .. t(i) .. }; print(p.x); ...
\* shape 4: struct P; print(P { .. }.x); print(P { .. }.y); print(P { .. }.z);
LiteralProgram(shape, a) ==
    CASE shape = 1 ->
           << StructP, Tell, Var("p", LiteralP(a, TRUE)) >> \o PrintFields(Ident("p"))
      [] shape = 2 ->
           << StructP, SBlock(<<Let("p", LiteralP(a, FALSE))>> \o PrintFields(Ident("p"))) >>
      [] shape = 3 ->
           << StructP, Tell, SVar("p", FALSE, TNamed("P"), LiteralP(a, TRUE)) >>
           \o PrintFields(Ident("p"))
      [] OTHER -> <<StructP>> \o PrintFields(LiteralP(a, FALSE))

\* struct Q { x: int, y: int } and a literal that departs from it
\* shape 1: print(Q { x: 1 });                 (y missing)
\* shape 2: print(Q { x: 1, w: 2 });           (w undeclared, y missing)
\* shape 3: print(Q { x: 1, x: 2 });           (x twice, y missing)
\* shape 4: print(Q { x: 1, y: 2, w: 3 });     (w undeclared)
\* shape 5: let Q = 0; print(Q { x: 1, y: 2, w: 3 });
StructQ == SStruct(Private, "Q", <<StructField("x", TInt), StructField("y", TInt)>>)

BadLiteral(shape) ==
    EStructLiteral("Q",
        CASE shape = 1 -> <<FieldInit("x", EInt(1))>>
          [] shape = 2 -> <<FieldInit("x", EInt(1)), FieldInit("w", EInt(2))>>
          [] shape = 3 -> <<FieldInit("x", EInt(1)), FieldInit("x", EInt(2))>>
          [] OTHER -> <<FieldInit("x", EInt(1)), FieldInit("y", EInt(2)),
                        FieldInit("w", EInt(3))>>)

BadLiteralProgram(shape) ==
    IF shape <= 4 THEN << StructQ, SPrint(BadLiteral(shape)) >>
    ELSE << StructQ, Let("Q", EInt(0)), SPrint(BadLiteral(shape)) >>

\* field family: the field with index a of a variable o of type P is read,
\* assigned 9 and read again
\* shape 1: var o = P { .. }; print(o.f); o.f = 9; print(o.f);
\* shape 2: { var o: P = P { .. }; print(o.f); o.f = 9; print(o.f); }
\* shape 3: var o = P { .. }; fn r() { print(o.f); } r(); o.f = 9; r();
\* shape 4: var o = P { .. }; fn w() { o.f = 9; } print(o.f); w(); print(o.f);
FieldProgram(shape, a) ==
    LET f == FieldNames[(a % 3) + 1]
        read == SPrint(EFieldAccess(Ident("o"), f))
        write == SExpr(EFieldAssign(Ident("o"), f, EInt(9)))
    IN CASE shape = 1 -> << StructP, Var("o", LiteralP(1, FALSE)), read, write, read >>
         [] shape = 2 ->
              << StructP, SBlock(<< SVar("o", TRUE, TNamed("P"), LiteralP(1, FALSE)),
                                    read, write, read >>) >>
         [] shape = 3 ->
              << StructP, Var("o", LiteralP(1, FALSE)), Fn0("r", None, <<read>>),
                 SExpr(Call0("r")), write, SExpr(Call0("r")) >>
         [] OTHER ->
              << StructP, Var("o", LiteralP(1, FALSE)), Fn0("w", None, <<write>>),
                 read, SExpr(Call0("w")), read >>

\* deep family: an assignment through a nested target, then a read of it
\* shape 1: var a = [[1, 2], [3, 4]]; a[i][j] = 9; print(a[i][j]);
\* shape 2: struct I { f: int, g: int }  struct O { q: I, w: int }
\*          var p = O { q: I { f: 1, g: 2 }, w: 3 }; p.q.<f|g> = 9; print(p.q.<f|g>);
\* shape 3: var a = [[1, 2], [3, 4]]; a[i] = [9, 9]; print(a[i][j]);
\* shape 4: struct I; struct O; var p = ..; p.w = 9; print(p.w);
StructI == SStruct(Private, "I", <<StructField("f", TInt), StructField("g", TInt)>>)
StructO == SStruct(Private, "O", <<StructField("q", TNamed("I")), StructField("w", TInt)>>)
LiteralO ==
    EStructLiteral("O", << FieldInit("q", EStructLiteral("I", << FieldInit("f", EInt(1)),
                                                               FieldInit("g", EInt(2)) >>)),
                           FieldInit("w", EInt(3)) >>)
Matrix == EArray(<< EArray(<<EInt(1), EInt(2)>>), EArray(<<EInt(3), EInt(4)>>) >>)

DeepProgram(shape, i, j) ==
    LET aij == EIndex(EIndex(Ident("a"), EInt(i)), EInt(j))
        pq == EFieldAccess(Ident("p"), "q")
        f == IF j = 0 THEN "f" ELSE "g"
    IN CASE shape = 1 ->
              << Var("a", Matrix),
                 SExpr(EIndexAssign(EIndex(Ident("a"), EInt(i)), EInt(j), EInt(9))),
                 SPrint(aij) >>
         [] shape = 2 ->
              << StructI, StructO, Var("p", LiteralO),
                 SExpr(EFieldAssign(pq, f, EInt(9))),
                 SPrint(EFieldAccess(pq, f)) >>
         [] shape = 3 ->
              << Var("a", Matrix),
                 SExpr(EIndexAssign(Ident("a"), EInt(i), EArray(<<EInt(9), EInt(9)>>))),
                 SPrint(aij) >>
         [] OTHER ->
              << StructI, StructO, Var("p", LiteralO),
                 SExpr(EFieldAssign(Ident("p"), "w", EInt(9))),
                 SPrint(EFieldAccess(Ident("p"), "w")) >>

MaxLet == 1        \* letbind family: the index of the element or field assigned

\* letbind family: a name bound with `let` is read, assigned through and read
\* again
\* shape 1: let a = [1, 2]; print(a[i]); a[i] = 9; print(a[i]);
\* shape 2: struct P; let a = P { x: 1, y: 2, z: 3 }; print(a.f); a.f = 9; print(a.f);
\* shape 3: let a = i + 1; print(a); a = 9; print(a);
\* shape 4: { let a = [1, 2]; print(a[i]); a[i] = 9; print(a[i]); }
LetBindProgram(shape, i) ==
    LET ai == EIndex(Ident("a"), EInt(i % 2))
        af == EFieldAccess(Ident("a"), FieldNames[(i % 2) + 1])
        indexed == << Let("a", EArray(<<EInt(1), EInt(2)>>)), SPrint(ai),
                      SExpr(EIndexAssign(Ident("a"), EInt(i % 2), EInt(9))), SPrint(ai) >>
    IN CASE shape = 1 -> indexed
         [] shape = 2 ->
              << StructP, Let("a", LiteralP(1, FALSE)), SPrint(af),
                 SExpr(EFieldAssign(Ident("a"), FieldNames[(i % 2) + 1], EInt(9))),
                 SPrint(af) >>
         [] shape = 3 ->
              << Let("a", EInt((i % 2) + 1)), SPrint(Ident("a")),
                 SExpr(EAssign("a", EInt(9))), SPrint(Ident("a")) >>
         [] OTHER -> << SBlock(indexed) >>

MaxBind == 5       \* assign family: the kinds of binding of the target
MaxTarget == 7     \* assign family: the declared types of the target
MaxValue == 6      \* assign family: the values assigned

\* the declared type of the target, None for a declaration with no annotation
TargetType(a) ==
    CASE a = 1 -> TInt
      [] a = 2 -> TFloat
      [] a = 3 -> TString
      [] a = 4 -> TBool
      [] a = 5 -> TArray(TInt)
      [] a = 6 -> TArray(TFloat)
      [] OTHER -> None

\* an initialiser the declaration of a target of that type accepts
TargetInit(a) ==
    CASE a \in {1, 2} -> EInt(1)
      [] a = 3 -> EStr("s")
      [] a = 4 -> EBool(TRUE)
      [] a \in {5, 6} -> EArray(<<EInt(1)>>)
      [] OTHER -> EArray(<<>>)

\* the value assigned: 2, "t", false, [2], [] and the ill-typed 1 + true
AssignedValue(b) ==
    CASE b = 1 -> EInt(2)
      [] b = 2 -> EStr("t")
      [] b = 3 -> EBool(FALSE)
      [] b = 4 -> EArray(<<EInt(2)>>)
      [] b = 5 -> EArray(<<>>)
      [] b = 6 -> EBinary(EInt(1), "Add", EBool(TRUE))
      [] OTHER -> EInt(3)

\* assign family: the assignment a = e for each binding of a
\* shape 1: var a: T = init; a = e;
\* shape 2: let a: T = init; a = e;
\* shape 3: fn f(a: T) { a = e; }
\* shape 4: fn a() { } a = e;
\* shape 5: a = e;
AssignProgram(shape, a, b) ==
    LET assign == SExpr(EAssign("a", AssignedValue(b)))
    IN CASE shape = 1 -> << SVar("a", TRUE, TargetType(a), TargetInit(a)), assign >>
         [] shape = 2 -> << SVar("a", FALSE, TargetType(a), TargetInit(a)), assign >>
         [] shape = 3 ->
              << SFn(Private, "f", <<Parameter("a", TargetType(a))>>, None, <<assign>>) >>
         [] shape = 4 -> << Fn0("a", None, <<>>), assign >>
         [] OTHER -> << assign >>

ArithOp(shape) ==
    CASE shape = 1 -> "Add"
      [] shape = 2 -> "Subtract"
      [] shape = 3 -> "Multiply"
      [] OTHER -> "Divide"

\* arith family: var l: L = ..; var r: R = ..; var x = l op r;
ArithProgram(shape, a, b) ==
    << SVar("l", TRUE, TargetType(a), TargetInit(a)),
       SVar("r", TRUE, TargetType(b), TargetInit(b)),
       Var("x", EBinary(Ident("l"), ArithOp(shape), Ident("r"))) >>

\* index family: var l: L = ..; var r: R = ..; var x = l[r]; a numeric
\* r starts at 0, the index of the one element of an array l
IndexProgram(a, b) ==
    << SVar("l", TRUE, TargetType(a), TargetInit(a)),
       SVar("r", TRUE, TargetType(b),
            IF b \in {1, 2} THEN EInt(0) ELSE TargetInit(b)),
       Var("x", EIndex(Ident("l"), Ident("r"))) >>

\* impl family: struct C { v: int } impl C { ... } let c = C { v: 5 };
\* print(c.a(k)); the methods of C are
\*   shape 1: a calls self.b(k), b is declared after a
\*   shape 2: a calls self.b(k), b is declared before a
\*   shape 3: a calls itself: if k == 0 { return self.v; } return self.a(k - 1);
\*   other:   a calls no method: return self.v + k;
StructC == SStruct(Private, "C", <<StructField("v", TInt)>>)
Self == Ident("self")
KParam == <<Parameter("k", TInt)>>
PlusK == SReturn(EBinary(EFieldAccess(Self, "v"), "Add", Ident("k")))
MethodB == MethodDeclaration("b", KParam, TInt, <<PlusK>>)
MethodACallsB ==
    MethodDeclaration("a", KParam, TInt,
                      <<SReturn(EMethodCall(Self, "b", <<Ident("k")>>))>>)
MethodACallsA ==
    MethodDeclaration("a", KParam, TInt,
        << SIf(Equal(Ident("k"), EInt(0)),
               <<SReturn(EFieldAccess(Self, "v"))>>, None),
           SReturn(EMethodCall(Self, "a",
                       <<EBinary(Ident("k"), "Subtract", EInt(1))>>)) >>)

ImplMethods(shape) ==
    CASE shape = 1 -> <<MethodACallsB, MethodB>>
      [] shape = 2 -> <<MethodB, MethodACallsB>>
      [] shape = 3 -> <<MethodACallsA>>
      [] OTHER -> <<MethodDeclaration("a", KParam, TInt, <<PlusK>>)>>

ImplProgram(shape, k) ==
    << StructC,
       SImpl("C", ImplMethods(shape)),
       Let("c", EStructLiteral("C", <<FieldInit("v", EInt(5))>>)),
       SPrint(EMethodCall(Ident("c"), "a", <<EInt(k)>>)) >>

Program(pr) ==
    CASE pr.family = "while" -> WhileProgram(10, pr.a, pr.b)
      [] pr.family = "shortcircuit" -> ShortCircuitProgram(pr.shape, pr.a, pr.b)
      [] pr.family = "array" -> ArrayProgram(pr.shape, pr.a)
      [] pr.family = "function" -> FunctionProgram(pr.shape, pr.a, pr.b)
      [] pr.family = "for" -> ForProgram(pr.shape, pr.a, pr.b)
      [] pr.family = "loop" -> LoopProgram(pr.shape, pr.a)
      [] pr.family = "cond" -> CondProgram(pr.shape, pr.a, pr.b)
      [] pr.family = "return" -> ReturnProgram(pr.shape, pr.a)
      [] pr.family = "nested" -> NestedProgram(pr.shape, pr.a)
      [] pr.family = "literal" -> LiteralProgram(pr.shape, pr.a)
      [] pr.family = "badliteral" -> BadLiteralProgram(pr.shape)
      [] pr.family = "field" -> FieldProgram(pr.shape, pr.a)
      [] pr.family = "deep" -> DeepProgram(pr.shape, pr.a, pr.b)
      [] pr.family = "letbind" -> LetBindProgram(pr.shape, pr.a)
      [] pr.family = "assign" -> AssignProgram(pr.shape, pr.a, pr.b)
      [] pr.family = "arith" -> ArithProgram(pr.shape, pr.a, pr.b)
      [] pr.family = "index" -> IndexProgram(pr.a, pr.b)
      [] pr.family = "impl" -> ImplProgram(pr.shape, pr.a)

Programs ==
    [family : {"while"}, shape : {1}, a : 1..MaxK, b : 1..MaxK]
    \cup [family : {"shortcircuit"}, shape : 1..MaxShape, a : 1..MaxOperand,
          b : 1..MaxOperand]
    \cup [family : {"array"}, shape : 1..MaxShape, a : 0..MaxIndex, b : {0}]
    \cup [family : {"function"}, shape : 1..MaxShape, a : 0..1, b : 0..1]
    \cup [family : {"for"}, shape : 1..MaxShape, a : 0..1, b : 0..MaxEnd]
    \cup [family : {"loop"}, shape : 1..MaxShape, a : 0..MaxEnd, b : {0}]
    \cup [family : {"cond"}, shape : 1..MaxShape, a : 0..2, b : 0..MaxEnd]
    \cup [family : {"return"}, shape : 1..MaxShape, a : 1..3, b : {0}]
    \cup [family : {"nested"}, shape : 1..MaxShape, a : 0..1, b : {0}]
    \cup [family : {"literal"}, shape : 1..MaxShape, a : 1..MaxPerm, b : {0}]
    \cup [family : {"badliteral"}, shape : 1..MaxBad, a : {0}, b : {0}]
    \cup [family : {"field"}, shape : 1..MaxShape, a : 0..MaxField, b : {0}]
    \cup [family : {"deep"}, shape : 1..MaxShape, a : 0..1, b : 0..1]
    \cup [family : {"letbind"}, shape : 1..MaxShape, a : 0..MaxLet, b : {0}]
    \cup [family : {"assign"}, shape : 1..MaxBind, a : 1..MaxTarget, b : 1..MaxValue]
    \cup [family : {"arith"}, shape : 1..MaxShape, a : 1..MaxTarget, b : 1..MaxTarget]
    \cup [family : {"index"}, shape : {1}, a : 1..MaxTarget, b : 1..MaxTarget]
    \cup [family : {"impl"}, shape : 1..MaxShape, a : 0..MaxLet, b : {0}]

(***************************************************************************)
(* The pipeline: type checker, compiler, virtual machine.                  *)
(***************************************************************************)
VMState ==
    [stack |-> stack, frames |-> frames, globals |-> globals, output |-> output,
     phase |-> phase]

Running == phase = "run"
CurOp == Fetch(VMState)
CurIp == Frame(VMState).ip
InMain == Len(frames) = 1

\* history of a run: the main-frame instructions executed, its conditional
\* jumps, the instructions taken, and the stack height at the first visit of
\* each marked instruction
NewTrace == [executed |-> {}, jumps |-> <<>>, steps |-> 0, heights |-> EmptyMap]

IdleLoader ==
    /\ loaded_modules = EmptyMap
    /\ loading_stack = <<>>
    /\ visited = {}
    /\ load_result = [op |-> "none", name |-> "", result |-> "none", message |-> "",
                      before |-> <<>>]

IdleResolve ==
    rt = [decls |-> 0, query |-> 0, calls |-> <<>>, status |-> "idle", result |-> None]

IdleFrontEnd ==
    fe = [input |-> <<>>, tokens |-> <<>>, current |-> 0, statements |-> <<>>,
          result |-> "idle"]

IdleInterpreter == it = [status |-> "idle"]

IdlePipeline ==
    /\ pc = 0
    /\ tc = NewTypeChecker
    /\ chunk = NewChunk
    /\ stack = <<>>
    /\ frames = <<>>
    /\ globals = EmptyMap
    /\ output = <<>>
    /\ trace = NewTrace

Init ==
    /\ prog \in Programs
    /\ phase = "source"
    /\ IdlePipeline
    /\ IdleLoader
    /\ IdleResolve
    /\ IdleFrontEnd
    /\ IdleInterpreter

\* main.rs run(): the program is type checked before it is compiled
TypeCheck ==
    /\ phase = "source"
    /\ tc' = Check(Program(prog))
    /\ phase' = IF tc'.err = "ok" THEN "checked" ELSE "type_error"
    /\ UNCHANGED <<prog, pc, chunk, stack, frames, globals, output, trace, loaderVars, rt, otherVars>>

Compile ==
    /\ phase = "checked"
    /\ \E c \in {compile(Program(prog))} :
          /\ chunk' = c.chunk
          /\ phase' = IF c.err = "ok" THEN "compiled" ELSE "compile_error"
    /\ UNCHANGED <<prog, pc, tc, stack, frames, globals, output, trace, loaderVars, rt, otherVars>>

VMStart ==
    /\ phase = "compiled"
    /\ LET vm == NewVM(chunk)
       IN /\ stack' = vm.stack
          /\ frames' = vm.frames
          /\ globals' = vm.globals
          /\ output' = vm.output
          /\ phase' = vm.phase
    /\ UNCHANGED <<prog, pc, tc, chunk, trace, loaderVars, rt, otherVars>>

\* history: the number of instructions executed, the instructions the main
\* chunk has executed and the conditional jumps it has taken or fallen through,
\* with the stack as it was at the jump
Marks(ch) == {ch.marks[i] : i \in DOMAIN ch.marks}
MarkedIps(ch) == UNION {{m.start, m.loop_start, m.end} : m \in Marks(ch)}

Record ==
    IF ~InMain THEN [trace EXCEPT !.steps = @ + 1]
    ELSE [steps |-> trace.steps + 1,
          heights |-> IF CurIp \in MarkedIps(chunk) /\ CurIp \notin DOMAIN trace.heights
                      THEN MapPut(trace.heights, CurIp, Len(stack))
                      ELSE trace.heights,
          executed |-> trace.executed \cup {CurIp},
          jumps |-> IF CurOp.op \in {"JumpIfFalse", "JumpIfTrue"} /\ Len(stack) > 0
                    THEN Append(trace.jumps,
                                [ip |-> CurIp, target |-> CurOp.a,
                                 height |-> Len(stack), top |-> Peek(VMState, 0),
                                 taken |-> (CurOp.op = "JumpIfFalse")
                                            <=> IsFalsy(Peek(VMState, 0))])
                    ELSE trace.jumps]

Commit(vm) ==
    /\ trace.steps < MaxRun
    /\ stack' = vm.stack
    /\ frames' = vm.frames
    /\ globals' = vm.globals
    /\ output' = vm.output
    /\ phase' = vm.phase
    /\ trace' = Record
    /\ UNCHANGED <<prog, pc, tc, chunk, loaderVars, rt, otherVars>>

VMLoad ==
    /\ Running
    /\ CurOp.op \in {"LoadConst", "LoadNull", "LoadLocal", "LoadGlobal"}
    /\ Commit(ExecLoad(VMState, CurOp))

VMStore ==
    /\ Running
    /\ CurOp.op \in {"StoreLocal", "StoreGlobal"}
    /\ Commit(ExecStore(VMState, CurOp))

VMPop ==
    /\ Running
    /\ CurOp.op = "Pop"
    /\ Commit(ExecPop(VMState, CurOp))

VMBinary ==
    /\ Running
    /\ CurOp.op \in {"Add", "Subtract", "Multiply", "Divide", "Modulo", "Equal",
                     "NotEqual", "Less", "LessEqual", "Greater", "GreaterEqual"}
    /\ Commit(ExecBinary(VMState, CurOp))

VMUnary ==
    /\ Running
    /\ CurOp.op \in {"Not", "Negate"}
    /\ Commit(ExecUnary(VMState, CurOp))

VMJump ==
    /\ Running
    /\ CurOp.op \in {"Jump", "Loop", "JumpIfFalse", "JumpIfTrue"}
    /\ Commit(ExecJump(VMState, CurOp))

VMCall ==
    /\ Running
    /\ CurOp.op = "Call"
    /\ Commit(ExecCall(VMState, CurOp))

VMReturn ==
    /\ Running
    /\ CurOp.op = "Return"
    /\ Commit(ExecReturn(VMState, CurOp))

VMPrint ==
    /\ Running
    /\ CurOp.op = "Print"
    /\ Commit(ExecPrint(VMState, CurOp))

VMArray ==
    /\ Running
    /\ CurOp.op \in {"NewArray", "ArrayGet", "ArraySet"}
    /\ Commit(ExecArray(VMState, CurOp))

VMStruct ==
    /\ Running
    /\ CurOp.op \in {"NewStruct", "FieldGet", "FieldSet"}
    /\ Commit(ExecStruct(VMState, CurOp))

VMHalt ==
    /\ Running
    /\ CurOp.op = "Halt"
    /\ Commit(ExecHalt(VMState, CurOp))

Next ==
    \/ TypeCheck
    \/ Compile
    \/ VMStart
    \/ VMLoad
    \/ VMStore
    \/ VMPop
    \/ VMBinary
    \/ VMUnary
    \/ VMJump
    \/ VMCall
    \/ VMReturn
    \/ VMPrint
    \/ VMArray
    \/ VMStruct
    \/ VMHalt

Spec == Init /\ [][Next]_vars

Ints(s) == [i \in DOMAIN s |-> VInteger(s[i])]

(***************************************************************************)
(* Claims about the pipeline.                                              *)
(***************************************************************************)
Halted == phase = "halt"
Failed == phase \in {"type_error", "compile_error", "error"}

\* reference values of the short-circuit family
OperandValue(i) ==
    CASE i = 1 -> VBoolean(FALSE)
      [] i = 2 -> VBoolean(TRUE)
      [] i = 3 -> VInteger(0)
      [] OTHER -> VInteger(1)

Crash == [ran |-> TRUE, v |-> VBoolean(TRUE)]
Quiet(v) == [ran |-> FALSE, v |-> v]
RefAnd(x, y) == IF IsFalsy(x.v) THEN x ELSE [ran |-> x.ran \/ y.ran, v |-> y.v]
RefOr(x, y) == IF IsFalsy(x.v) THEN [ran |-> x.ran \/ y.ran, v |-> y.v] ELSE x

ShortCircuitResult(shape, a, b) ==
    CASE shape = 1 -> RefAnd(Quiet(OperandValue(a)), Crash)
      [] shape = 2 -> RefOr(Quiet(OperandValue(a)), Crash)
      [] shape = 3 -> RefOr(RefAnd(Quiet(OperandValue(a)), Quiet(OperandValue(b))), Crash)
      [] OTHER -> RefAnd(Quiet(OperandValue(a)), RefOr(Quiet(OperandValue(b)), Crash))

ShortCircuitOutput(shape, a, b) ==
    LET r == ShortCircuitResult(shape, a, b)
    IN (IF r.ran THEN <<VInteger(99)>> ELSE <<>>) \o <<r.v>>

\* C1: in the bytecode of a && b (a || b), when a is falsy (truthy) no
\* instruction of b is executed; on the short-circuit path and on the
\* fall-through path the stack at the end of the expression holds one value
\* more than before it, the result; the program never fails and prints what
\* the short-circuit evaluation of its expression gives.
C1_ShortCircuit ==
    prog.family = "shortcircuit" =>
        /\ ~Failed
        /\ \A i \in DOMAIN trace.jumps :
              LET j == trace.jumps[i]
              IN /\ j.taken =>
                       \A p \in (j.ip + 1)..(j.target - 1) : p \notin trace.executed
                 /\ Running /\ InMain /\ CurIp = j.target =>
                       /\ Len(stack) = j.height
                       /\ j.taken => Peek(VMState, 0) = j.top
        /\ Halted => output = ShortCircuitOutput(prog.shape, prog.a, prog.b)

\* a run of (a && b) || crash() that took one conditional jump, fell through
\* another and halted
C1_Witness ==
    /\ prog.family = "shortcircuit"
    /\ Halted
    /\ \E i \in DOMAIN trace.jumps : trace.jumps[i].taken
    /\ \E i \in DOMAIN trace.jumps : ~trace.jumps[i].taken

ArrayValues == [i \in 1..(MaxIndex + 1) |-> VInteger(i)]
ArrayUpdated(i) == [ArrayValues EXCEPT ![i + 1] = VInteger(9)]

ArrayOutput(shape, i) ==
    CASE shape \in {1, 2} -> ArrayValues \o ArrayUpdated(i)
      [] shape = 3 -> ArrayValues \o ArrayUpdated(i) \o ArrayValues
      [] OTHER -> ArrayValues \o ArrayUpdated(i) \o ArrayValues

\* C2: after let a = [1,2,3]; let b = a; b[i] = 9 the elements read through a
\* are 1,2,3 and through b are 1,2,3 with 9 at i; the assignment through b
\* changes b only: every other variable (a, a third variable c, the caller's
\* array x) keeps its value, as globals, as block locals and as parameters.
C2_ArrayValueSemantics ==
    prog.family = "array" =>
        /\ ~Failed
        /\ Halted => output = ArrayOutput(prog.shape, prog.a)
        /\ \A n \in DOMAIN globals \ {"b", "f"} : globals[n] = VArray(ArrayValues)
        /\ "b" \in DOMAIN globals =>
              globals["b"] \in {VArray(ArrayValues), VArray(ArrayUpdated(prog.a))}

\* the program of the claim has run: b[0] = 9 on globals
C2_Witness ==
    /\ prog.family = "array" /\ prog.shape = 1 /\ prog.a = 0
    /\ Halted
    /\ globals["a"] = VArray(ArrayValues)
    /\ globals["b"] = VArray(ArrayUpdated(0))

IsS3 == prog.family = "while" /\ prog.a = 3 /\ prog.b = 7

\* C3: var i = 0; while i < 10 { i = i + 1; if i == 3 { continue; }
\* if i == 7 { break; } print(i); } passes the type checker and the compiler;
\* its execution prints 1, 2, 4, 5, 6 in that order and nothing else, always
\* has a next instruction to execute until Halt, and reaches Halt within
\* MaxSteps instructions.
C3_WhileBreakContinue ==
    IsS3 =>
        /\ ~Failed
        /\ Running => ENABLED Next
        /\ trace.steps <= MaxSteps
        /\ \E n \in 0..5 : output = SubSeq(Ints(<<1, 2, 4, 5, 6>>), 1, n)
        /\ Halted => output = Ints(<<1, 2, 4, 5, 6>>)

C3_Witness == IsS3 /\ Halted /\ output = Ints(<<1, 2, 4, 5, 6>>)

\* C10: inside a called function, when a let/var local has just been declared
\* its initialiser's value lies at the local's slot: its offset from
\* frame.base equals the slot index the compiler gave the local.
C10_SlotIsOffset ==
    Running /\ ~InMain =>
        \A i \in DOMAIN Frame(VMState).function.chunk.sites :
            LET site == Frame(VMState).function.chunk.sites[i]
            IN ~site.param /\ CurIp = site.ip =>
                  Len(stack) - 1 - Frame(VMState).base = site.slot

\* fn f(p) { let x = p + 1; ... } has been called and x declared
C10_Witness ==
    /\ prog.family = "function" /\ prog.shape = 1
    /\ Running /\ ~InMain
    /\ \E i \in DOMAIN Frame(VMState).function.chunk.sites :
          LET site == Frame(VMState).function.chunk.sites[i]
          IN ~site.param /\ CurIp = site.ip

(***************************************************************************)
(* The type checker on programs with modules.  TypeChecker::check checks   *)
(* the top-level statements in order and stops at the first error.         *)
(***************************************************************************)
MaxUse == 4        \* module family: the forms of the use statement
MaxRef == 3        \* module family: the forms of the reference to the symbol

\* [pub] fn s() -> int { return 42; }
DeclS(vis) == SFn(vis, "s", <<>>, TInt, <<SReturn(EInt(42))>>)

\* mod m { ... } with s declared at the top level of m, inside the body of a
\* function of m, inside a block of m, or next to a public function t
ModuleM(shape, vis) ==
    CASE shape = 1 -> SMod("m", <<DeclS(vis)>>, FALSE)
      [] shape = 2 -> SMod("m", <<SFn(Private, "g", <<>>, None, <<DeclS(vis)>>)>>, FALSE)
      [] shape = 3 -> SMod("m", <<SBlock(<<DeclS(vis)>>)>>, FALSE)
      [] OTHER -> SMod("m", <<DeclS(vis),
                              SFn(Public, "t", <<>>, TInt, <<SReturn(EInt(1))>>)>>, FALSE)

\* use m::s;  use m::{s};  use m::s as r;  use m::*;
UseM(u) ==
    CASE u = 0 -> <<>>
      [] u = 1 -> <<SUse(<<"m">>, UseSingle("s"))>>
      [] u = 2 -> <<SUse(<<"m">>, UseMultiple(<<"s">>))>>
      [] u = 3 -> <<SUse(<<"m">>, UseRenamed("s", "r"))>>
      [] OTHER -> <<SUse(<<"m">>, UseAll)>>

\* print(s());  let v = m::s;  print(m::s());
RefS(u, r) ==
    CASE r = 0 -> <<>>
      [] r = 1 -> <<SPrint(Call0(IF u = 3 THEN "r" ELSE "s"))>>
      [] r = 2 -> <<Let("v", EPath(<<"m", "s">>))>>
      [] OTHER -> <<SPrint(ECall(EPath(<<"m", "s">>), <<>>))>>

ModuleProgram(pr) == <<ModuleM(pr.shape, pr.vis)>> \o UseM(pr.a) \o RefS(pr.a, pr.b)

ModulePrograms ==
    [family : {"module"}, shape : 1..MaxShape, vis : {Private, Public},
     a : 0..MaxUse, b : 0..MaxRef]

InitTC ==
    /\ prog \in ModulePrograms
    /\ phase = "source"
    /\ pc = 0
    /\ tc = NewTypeChecker
    /\ chunk = NewChunk
    /\ stack = <<>>
    /\ frames = <<>>
    /\ globals = EmptyMap
    /\ output = <<>>
    /\ trace = NewTrace
    /\ IdleLoader
    /\ IdleResolve
    /\ IdleFrontEnd
    /\ IdleInterpreter

NextStatement == ModuleProgram(prog)[pc + 1]

\* one iteration of the loop of TypeChecker::check
CheckNextStatement ==
    /\ tc' = CheckStatement(tc, NextStatement)
    /\ pc' = pc + 1
    /\ phase' = IF tc'.err # "ok" THEN "type_error"
                ELSE IF pc' = Len(ModuleProgram(prog)) THEN "checked"
                ELSE "source"
    /\ UNCHANGED <<prog, chunk, stack, frames, globals, output, trace, loaderVars, rt, otherVars>>

Checking == phase = "source" /\ pc < Len(ModuleProgram(prog))

CheckModule ==
    /\ Checking
    /\ NextStatement.k = "ModuleDeclaration"
    /\ CheckNextStatement

CheckUse ==
    /\ Checking
    /\ NextStatement.k = "UseStatement"
    /\ CheckNextStatement

CheckReference ==
    /\ Checking
    /\ NextStatement.k \in {"Print", "VarDeclaration"}
    /\ CheckNextStatement

NextTC ==
    \/ CheckModule
    \/ CheckUse
    \/ CheckReference

SpecTC == InitTC /\ [][NextTC]_vars

(***************************************************************************)
(* Claims about modules and visibility.                                    *)
(***************************************************************************)
Declares(s) == s.k \in {"FnDeclaration", "StructDeclaration", "TypeAlias"}

\* the names declared pub directly at the top level of a module declaration
TopLevelPub(m) ==
    { m.statements[i].name :
        i \in { j \in DOMAIN m.statements :
                  Declares(m.statements[j]) /\ m.statements[j].visibility = Public } }

Exports(path) ==
    IF path \in DOMAIN tc.symbol_table.modules
    THEN tc.symbol_table.modules[path]
    ELSE EmptyMap

\* C4: the export map of module m holds only symbols declared pub directly at
\* the top level of m: no symbol declared without pub, and no pub declaration
\* nested in a function body or a block of m.
C4_ExportsOnlyTopLevelPub ==
    /\ DOMAIN Exports(<<"m">>) \subseteq TopLevelPub(ModuleProgram(prog)[1])
    /\ \A n \in DOMAIN Exports(<<"m">>) : Exports(<<"m">>)[n].visibility = Public

\* mod m { fn g() { pub fn s() -> int { return 42; } } } has been checked
C4_Witness ==
    /\ prog.shape = 2 /\ prog.vis = Public
    /\ pc >= 1
    /\ tc.err = "ok"

UsesPrivate == prog.vis = Private /\ prog.a \in 1..3

\* C5: checking use m::s, use m::{s} or use m::s as r where s is declared in m
\* without pub fails at the use statement, referenced afterwards or not.
C5_PrivateUseFails ==
    UsesPrivate /\ pc >= 2 => phase = "type_error" /\ pc = 2

\* mod m { fn s() -> int { return 42; } } use m::s; has been checked
C5_Witness ==
    /\ UsesPrivate /\ prog.shape = 1 /\ prog.a = 1 /\ prog.b = 0
    /\ pc = 2
    /\ phase = "checked"

RefersByPath == prog.b >= 2

\* C6: a program with the path expression m::s, as a value or as the callee of
\* a call, is accepted only if s is a Public symbol in the export map of m.
C6_PathOnlyPublic ==
    RefersByPath /\ phase = "checked" =>
        /\ "s" \in DOMAIN Exports(<<"m">>)
        /\ Exports(<<"m">>)["s"].visibility = Public

\* mod m { fn s() -> int { return 42; } } print(m::s()); has been checked
C6_Witness ==
    /\ prog.b = 3 /\ prog.vis = Private /\ prog.shape = 1 /\ prog.a = 0
    /\ pc = 2
    /\ phase = "checked"

(***************************************************************************)
(* ModuleLoader.  The search path is fixed: for each module name, whether  *)
(* a file is found, whether it can be read, and what the lexer and the     *)
(* parser make of it.                                                      *)
(***************************************************************************)
ModuleNames == {"a", "b", "c", "gone", "binary", "badlex", "badparse"}

SourceFile(found, read, lex, parse, program) ==
    [found |-> found, read |-> read, lex |-> lex, parse |-> parse, program |-> program]

\* a.zero is `mod b;`, b.zero is `mod a;`, c.zero is `print(1);`
File(name) ==
    CASE name = "a" -> SourceFile(TRUE, TRUE, TRUE, TRUE, <<SModRef("b", FALSE)>>)
      [] name = "b" -> SourceFile(TRUE, TRUE, TRUE, TRUE, <<SModRef("a", FALSE)>>)
      [] name = "c" -> SourceFile(TRUE, TRUE, TRUE, TRUE, <<SPrint(EInt(1))>>)
      [] name = "gone" -> SourceFile(FALSE, FALSE, FALSE, FALSE, <<>>)
      [] name = "binary" -> SourceFile(TRUE, FALSE, FALSE, FALSE, <<>>)
      [] name = "badlex" -> SourceFile(TRUE, TRUE, FALSE, FALSE, <<>>)
      [] name = "badparse" -> SourceFile(TRUE, TRUE, TRUE, FALSE, <<>>)

Contains(seq, x) == \E i \in DOMAIN seq : seq[i] = x

find_module_file(name) == IF File(name).found THEN "Ok" ELSE "ModuleNotFound"

\* build_cycle_message: the loading stack from the first entry equal to the
\* requested module, then the requested module; joined with arrows
RECURSIVE CycleFrom(_, _, _)
CycleFrom(stk, current_module, found_start) ==
    IF stk = <<>> THEN <<>>
    ELSE LET found == found_start \/ Head(stk) = current_module
         IN (IF found THEN <<Head(stk)>> ELSE <<>>)
            \o CycleFrom(Tail(stk), current_module, found)

RECURSIVE Join(_, _)
Join(names, sep) ==
    IF Len(names) = 0 THEN <<>>
    ELSE IF Len(names) = 1 THEN names
    ELSE <<Head(names), sep>> \o Join(Tail(names), sep)

build_cycle_message(stk, current_module) ==
    <<"Circular dependency detected: ">>
    \o Join(Append(CycleFrom(stk, current_module, FALSE), current_module), " -> ")

\* what load_module returns once the name is pushed: the first failing step
LoadOutcome(name) ==
    IF find_module_file(name) # "Ok" THEN "ModuleNotFound"
    ELSE IF ~File(name).read THEN "IoError"
    ELSE IF ~File(name).lex THEN "LexerError"
    ELSE IF ~File(name).parse THEN "ParseError"
    ELSE "Ok"

InitLoader ==
    /\ prog = [family |-> "loader", shape |-> 0, a |-> 0, b |-> 0]
    /\ phase = "source"
    /\ IdlePipeline
    /\ IdleLoader
    /\ IdleResolve
    /\ IdleFrontEnd
    /\ IdleInterpreter

Returned(name, result, message) ==
    load_result' = [op |-> "load_module", name |-> name, result |-> result,
                    message |-> message, before |-> loading_stack]

\* load_module, lines 79-81: the module is cached
LoadCached ==
    \E name \in ModuleNames :
        /\ name \in DOMAIN loaded_modules
        /\ Returned(name, "Ok", <<>>)
        /\ UNCHANGED <<loaded_modules, loading_stack, visited, pipelineVars, rt, otherVars>>

\* load_module, lines 84-87: the name is on the loading stack
LoadCircular ==
    \E name \in ModuleNames :
        /\ name \notin DOMAIN loaded_modules
        /\ Contains(loading_stack, name)
        /\ Returned(name, "CircularDependency", build_cycle_message(loading_stack, name))
        /\ UNCHANGED <<loaded_modules, loading_stack, visited, pipelineVars, rt, otherVars>>

\* load_module, lines 90-108: the name is pushed and marked visited, then
\* find_module_file, read_to_string, tokenize or parse fails and `?` returns
LoadFails ==
    \E name \in ModuleNames :
        /\ name \notin DOMAIN loaded_modules
        /\ ~Contains(loading_stack, name)
        /\ LoadOutcome(name) # "Ok"
        /\ loading_stack' = Append(loading_stack, name)
        /\ visited' = visited \cup {name}
        /\ Returned(name, LoadOutcome(name), <<>>)
        /\ UNCHANGED <<loaded_modules, pipelineVars, rt, otherVars>>

\* load_module, lines 90-116: the file is found, read, lexed and parsed; the
\* program is cached and the name popped
LoadOk ==
    \E name \in ModuleNames :
        /\ name \notin DOMAIN loaded_modules
        /\ ~Contains(loading_stack, name)
        /\ LoadOutcome(name) = "Ok"
        /\ loaded_modules' = MapPut(loaded_modules, name, File(name).program)
        /\ loading_stack' = SubSeq(Append(loading_stack, name), 1, Len(loading_stack))
        /\ visited' = visited \cup {name}
        /\ Returned(name, "Ok", <<>>)
        /\ UNCHANGED <<pipelineVars, rt, otherVars>>

NextLoader ==
    \/ LoadCached
    \/ LoadCircular
    \/ LoadFails
    \/ LoadOk

SpecLoader == InitLoader /\ [][NextLoader]_vars

Failures == {"ModuleNotFound", "IoError", "LexerError", "ParseError"}

\* C7: a.zero holds `mod b;` and b.zero holds `mod a;`: load_module("a")
\* returns Err(CircularDependency) and the cycle text names a and b.
C7_CycleReported ==
    load_result.name = "a" =>
        /\ load_result.result = "CircularDependency"
        /\ Contains(load_result.message, "a")
        /\ Contains(load_result.message, "b")

\* load_module("a") has returned on a fresh loader
C7_Witness ==
    /\ load_result.name = "a"
    /\ load_result.before = <<>>
    /\ visited = {"a"}

\* C8: after a load_module call that returns ModuleNotFound, an I/O error, a
\* lexer error or a parse error the loading stack is what it was before the
\* call, and no call reports CircularDependency for a module whose only
\* reason to be on the stack is such a failure.
C8_StackRestored ==
    /\ load_result.result \in Failures => loading_stack = load_result.before
    /\ load_result.result = "CircularDependency" =>
          LoadOutcome(load_result.name) = "Ok"

\* load_module("gone") failed with ModuleNotFound and was called again
C8_Witness ==
    /\ load_result.name = "gone"
    /\ load_result.result = "CircularDependency"
    /\ load_result.before = <<"gone">>

(***************************************************************************)
(* TypeChecker::resolve_type, one call or return at a time.  rt.calls is   *)
(* the stack of the active resolve_type calls: the type each was given and *)
(* the results of the recursive calls it has made so far.                  *)
(***************************************************************************)
MaxDecls == 7      \* the sets of type declarations tried
MaxQuery == 5      \* the types resolved against them
MaxDepth == 8      \* the call depth at which the thread's stack is exhausted

Alias(name, target) == SAlias(Private, name, target)

Declarations(d) ==
    CASE d = 1 -> <<Alias("A", TInt)>>
      [] d = 2 -> <<Alias("A", TNamed("B")), Alias("B", TInt)>>
      [] d = 3 -> <<Alias("A", TNamed("B")), Alias("B", TNamed("A"))>>
      [] d = 4 -> <<Alias("A", TNamed("A"))>>
      [] d = 5 -> <<SStruct(Private, "A", <<StructField("next", TNamed("A"))>>)>>
      [] d = 6 -> <<Alias("A", TArray(TNamed("B"))),
                    Alias("B", TFunction(<<TNamed("A")>>, TInt))>>
      [] OTHER -> <<Alias("A", TArray(TNamed("B"))),
                    Alias("B", TFunction(<<TInt>>, TBool))>>

Query(q) ==
    CASE q = 1 -> TNamed("A")
      [] q = 2 -> TArray(TNamed("A"))
      [] q = 3 -> TFunction(<<TNamed("A")>>, TNamed("B"))
      [] q = 4 -> TNamed("C")
      [] OTHER -> TInt

\* check_statement on type aliases and struct declarations: each defines its
\* name in the symbol table
RECURSIVE Declare(_, _)
Declare(st, decls) ==
    IF decls = <<>> THEN st
    ELSE LET d == Head(decls)
             ty == IF d.k = "TypeAlias" THEN d.target_type ELSE TStruct(d.name, d.fields)
         IN Declare(define_with_visibility(st, d.name, ty, FALSE, d.visibility),
                    Tail(decls))

\* the symbol table resolve_type reads
DeclaredTable == tc.symbol_table

\* the types resolve_type(t) calls itself on, in order
Callees(st, t) ==
    CASE t.k = "Named" ->
            IF IsSome(SymGet(st, t.name)) THEN <<SymGet(st, t.name).v.symbol_type>>
            ELSE <<>>
      [] t.k = "Array" -> <<t.elem>>
      [] t.k = "Function" -> Append(t.params, t.return_type)
      [] t.k = "Struct" -> [i \in DOMAIN t.fields |-> t.fields[i].field_type]
      [] OTHER -> <<>>

\* what resolve_type(t) returns given the results of those calls
Resolved(t, done) ==
    CASE t.k = "Named" -> IF Len(done) = 1 THEN done[1] ELSE t
      [] t.k = "Array" -> TArray(done[1])
      [] t.k = "Function" -> TFunction(SubSeq(done, 1, Len(done) - 1), done[Len(done)])
      [] t.k = "Struct" ->
            TStruct(t.name, [i \in DOMAIN t.fields |->
                                StructField(t.fields[i].name, done[i])])
      [] OTHER -> t

InitResolve ==
    /\ prog = [family |-> "resolve", shape |-> 0, a |-> 0, b |-> 0]
    /\ phase = "source"
    /\ pc = 0
    /\ rt \in [decls : 1..MaxDecls, query : 1..MaxQuery, calls : {<<>>},
               status : {"ready"}, result : {None}]
    /\ tc = [NewTypeChecker EXCEPT
                !.symbol_table = Declare(NewSymbolTable, Declarations(rt.decls))]
    /\ chunk = NewChunk
    /\ stack = <<>>
    /\ frames = <<>>
    /\ globals = EmptyMap
    /\ output = <<>>
    /\ trace = NewTrace
    /\ IdleLoader
    /\ IdleFrontEnd
    /\ IdleInterpreter

TopCall == rt.calls[Len(rt.calls)]
Pending == Len(TopCall.done) < Len(Callees(DeclaredTable, TopCall.t))
NextCallee == Callees(DeclaredTable, TopCall.t)[Len(TopCall.done) + 1]

\* the type checker calls resolve_type(query)
ResolveEnter ==
    /\ rt.status = "ready"
    /\ rt' = [rt EXCEPT !.status = "running",
                        !.calls = <<[t |-> Query(rt.query), done |-> <<>>]>>]
    /\ UNCHANGED <<pipelineVars, loaderVars, otherVars>>

\* a recursive call self.resolve_type(..)
ResolveCall ==
    /\ rt.status = "running"
    /\ Pending
    /\ Len(rt.calls) < MaxDepth
    /\ rt' = [rt EXCEPT !.calls = Append(@, [t |-> NextCallee, done |-> <<>>])]
    /\ UNCHANGED <<pipelineVars, loaderVars, otherVars>>

\* a recursive call with no stack left: the process aborts
ResolveOverflow ==
    /\ rt.status = "running"
    /\ Pending
    /\ Len(rt.calls) = MaxDepth
    /\ rt' = [rt EXCEPT !.status = "overflow"]
    /\ UNCHANGED <<pipelineVars, loaderVars, otherVars>>

\* the innermost call returns its type to its caller
ResolveReturn ==
    /\ rt.status = "running"
    /\ ~Pending
    /\ LET value == Resolved(TopCall.t, TopCall.done)
           rest == SubSeq(rt.calls, 1, Len(rt.calls) - 1)
       IN rt' = IF rest = <<>>
                THEN [rt EXCEPT !.calls = <<>>, !.status = "done", !.result = value]
                ELSE [rt EXCEPT !.calls = [rest EXCEPT ![Len(rest)].done =
                                                            Append(@, value)]]
    /\ UNCHANGED <<pipelineVars, loaderVars, otherVars>>

NextResolve ==
    \/ ResolveEnter
    \/ ResolveCall
    \/ ResolveOverflow
    \/ ResolveReturn

SpecResolve == InitResolve /\ [][NextResolve]_vars

\* C9: resolve_type terminates on every type under every set of declarations,
\* mutually referring aliases included: it never calls itself again on a type
\* it is already resolving (the same call on the same table would recurse for
\* ever) and never exhausts the stack.
C9_ResolveTerminates ==
    /\ rt.status # "overflow"
    /\ \A i, j \in DOMAIN rt.calls : i < j => rt.calls[i].t # rt.calls[j].t

\* type A = B; type B = A; and resolve_type(Named(A)) is resolving Named(A)
\* inside the resolution of Named(A)
C9_Witness ==
    /\ rt.decls = 3 /\ rt.query = 1
    /\ Len(rt.calls) >= 3
    /\ rt.calls[1].t = TNamed("A")
    /\ rt.calls[3].t = TNamed("A")


(***************************************************************************)
(* Loops and conditionals: the for, loop and cond families                 *)
(***************************************************************************)
IsPrefix(s, t) == Len(s) <= Len(t) /\ SubSeq(t, 1, Len(s)) = s

\* the integers s, s + 1, ..., e - 1
Range(s, e) == [i \in 1..(IF e > s THEN e - s ELSE 0) |-> s + i - 1]

RECURSIVE Without(_, _)
Without(seq, x) ==
    IF seq = <<>> THEN <<>>
    ELSE IF seq[1] = x THEN Without(Tail(seq), x)
    ELSE <<seq[1]>> \o Without(Tail(seq), x)

\* what the body of each shape prints when it runs once for each x in s..e-1
ForOutput(shape, s, e) ==
    CASE shape = 1 -> Ints(Range(s, e))
      [] shape = 2 -> Ints(Without(Range(s, e), s + 1))
      [] shape = 3 -> Ints(Range(s, e) \o <<7>>)
      [] OTHER -> Ints(Range(s, e))

\* C11: executing the bytecode of for x in s..e { body }, where body neither
\* assigns x nor breaks, runs body once for each x = s, ..., e - 1 in that
\* order and then terminates (within MaxForSteps instructions), also when
\* body executes continue.
C11_ForRunsBody ==
    prog.family = "for" =>
        /\ ~Failed
        /\ IsPrefix(output, ForOutput(prog.shape, prog.a, prog.b))
        /\ Halted => output = ForOutput(prog.shape, prog.a, prog.b)
        /\ trace.steps <= MaxForSteps

\* for x in 0..3 { if x == 1 { continue; } print(x); } is still running after
\* MaxForSteps instructions and has printed 0 only
C11_Witness ==
    /\ prog = [family |-> "for", shape |-> 2, a |-> 0, b |-> 3]
    /\ Running
    /\ trace.steps > MaxForSteps
    /\ output = Ints(<<0>>)


Loops(ch) == {m \in Marks(ch) : m.k \in {"While", "For"}}

\* the stack height when the main frame first reached instruction ip
FirstHeight(ip) == trace.heights[ip]
Visited(ip) == ip \in DOMAIN trace.heights

\* C12: for every while and for loop of the main chunk, whenever control is at
\* the start of an iteration the stack height equals the height at the first
\* iteration, and when control is just past the loop the height equals the
\* height before the loop; the run never fails on the stack.  Bodies declare
\* locals and leave iterations through break or continue.
C12_LoopHeights ==
    prog.family \in {"while", "for", "loop"} =>
        /\ ~Failed
        /\ Running /\ InMain =>
             \A m \in Loops(chunk) :
                /\ CurIp = m.loop_start /\ Visited(m.loop_start) =>
                      Len(stack) = FirstHeight(m.loop_start)
                /\ CurIp = m.end /\ Visited(m.start) =>
                      Len(stack) = FirstHeight(m.start)

\* var i = 0; while i < 3 { let t = i; i = i + 1; if t == 1 { break; }
\* print(t); } is past the loop with one more value on the stack than before
C12_Witness ==
    /\ prog = [family |-> "loop", shape |-> 2, a |-> 3, b |-> 0]
    /\ Running /\ InMain
    /\ \E m \in Loops(chunk) :
          /\ CurIp = m.end /\ Visited(m.start)
          /\ Len(stack) = FirstHeight(m.start) + 1


Conditionals(ch) == {m \in Marks(ch) : m.k \in {"If", "While"}}

\* what the cond family prints
CondOutput(shape, p, q) ==
    LET branch == IF p < q THEN 1 ELSE 2
        last == IF p < q THEN q ELSE p
    IN CASE shape = 1 -> Ints(IF p < q THEN <<1, 3>> ELSE <<3>>)
         [] shape = 2 -> Ints(<<branch, 3>>)
         [] shape = 3 -> Ints(<<last>>)
         [] OTHER -> Ints(<<branch, 5, last>>)

\* the conditional jumps the run has executed at instruction ip
JumpsAt(ip) == {i \in DOMAIN trace.jumps : trace.jumps[i].ip = ip}

\* C13: for an if statement (with or without else) and a while loop that
\* exits because its condition is false, with stack-neutral bodies: the run
\* does not fail, every executed JumpIfFalse is followed on both of its paths
\* by a Pop (the instruction after it and the instruction at its target), and
\* when control is just past the statement the stack height equals the height
\* before it; the program prints what its branches and the locals around them
\* say.
C13_ConditionPoppedOnce ==
    prog.family = "cond" =>
        /\ ~Failed
        /\ IsPrefix(output, CondOutput(prog.shape, prog.a, prog.b))
        /\ Halted => output = CondOutput(prog.shape, prog.a, prog.b) /\ stack = <<>>
        /\ \A i \in DOMAIN trace.jumps :
              /\ chunk.code[trace.jumps[i].ip + 2].op = "Pop"
              /\ chunk.code[trace.jumps[i].target + 1].op = "Pop"
        /\ Running /\ InMain =>
              \A m \in Conditionals(chunk) :
                 CurIp = m.end /\ Visited(m.start) => Len(stack) = FirstHeight(m.start)

\* { let t = 5; if 2 < 1 { .. } else { print(2); } var i = 2; while i < 1 { .. }
\* print(t); print(i); } has taken the false path of both conditions and halted
C13_Witness ==
    /\ prog = [family |-> "cond", shape |-> 4, a |-> 2, b |-> 1]
    /\ Halted
    /\ Len(trace.jumps) = 2
    /\ \A i \in DOMAIN trace.jumps : trace.jumps[i].taken
    /\ output = Ints(<<2, 5, 2>>)


(***************************************************************************)
(* The jumps of a compiled chunk                                           *)
(***************************************************************************)
JumpFamily == {"Jump", "JumpIfFalse", "JumpIfTrue"}

\* the error Compiler::compile returns for the program, "ok" when none
CompileError == compile(Program(prog)).err

Compiled == phase \in {"compiled", "run", "halt", "error"}

RECURSIVE WellPatched(_)
WellPatched(ch) ==
    /\ \A i \in DOMAIN ch.code :
          /\ ch.code[i].op \in JumpFamily =>
                ch.code[i].a > i - 1 /\ ch.code[i].a < Len(ch.code)
          /\ ch.code[i].op = "Loop" => ch.code[i].a >= 0 /\ ch.code[i].a <= i - 1
    /\ \A j \in DOMAIN ch.constants :
          ch.constants[j].t = "Function" => WellPatched(ch.constants[j].v.chunk)

RECURSIVE CountJumps(_)
CountJumps(ch) ==
    Cardinality({i \in DOMAIN ch.code : ch.code[i].op \in JumpFamily \cup {"Loop"}})
    + (IF \E j \in DOMAIN ch.constants : ch.constants[j].t = "Function"
       THEN CountJumps(ch.constants[CHOOSE j \in DOMAIN ch.constants :
                                       ch.constants[j].t = "Function"].v.chunk)
       ELSE 0)

\* C14: in the chunk Compiler::compile returns and in every function chunk
\* among its constants, each Jump, JumpIfFalse and JumpIfTrue targets an
\* instruction index greater than its own and inside the chunk, each Loop
\* targets an index not greater than its own; and compilation never stops
\* because patch_jump met a slot that holds no jump.
C14_JumpsPatched ==
    /\ Compiled => WellPatched(chunk)
    /\ phase = "compile_error" =>
          CompileError \in {"InvalidBreakContinue", "TooManyLocals", "UndefinedStruct",
                            "UndefinedField"}

\* a compiled while program: its chunk holds the jumps of the loop, of two
\* ifs, of a break and of a continue
C14_Witness ==
    /\ prog.family = "while" /\ phase = "compiled"
    /\ CountJumps(chunk) >= 8
    /\ \E i \in DOMAIN chunk.code : chunk.code[i].op = "Loop"
    /\ \E i \in DOMAIN chunk.code : chunk.code[i].op = "Jump"


(***************************************************************************)
(* Returns, breaks and continues in nested functions                       *)
(***************************************************************************)
TypeChecked == phase # "source"

\* C15: every return e inside a function whose declared return type and the
\* type of e are known and not compatible makes type checking fail with
\* ReturnTypeMismatch, wherever the return stands in the body.
C15_ReturnMismatch ==
    prog.family = "return" /\ TypeChecked =>
        phase = "type_error" /\ tc.err = "ReturnTypeMismatch"

\* fn f() -> int { fn g() -> int { return 1; } return true; } is accepted
C15_Witness ==
    /\ prog = [family |-> "return", shape |-> 2, a |-> 1, b |-> 0]
    /\ phase = "checked"
    /\ tc.err = "ok"

\* C16: a program TypeChecker::check accepts compiles without
\* InvalidBreakContinue.
C16_AcceptedCompiles ==
    phase = "compile_error" => CompileError # "InvalidBreakContinue"

\* while true { fn f() { break; } break; } passed the type checker and the
\* compiler returned InvalidBreakContinue
C16_Witness ==
    /\ prog = [family |-> "nested", shape |-> 1, a |-> 0, b |-> 0]
    /\ tc.err = "ok"
    /\ phase = "compile_error"
    /\ CompileError = "InvalidBreakContinue"


(***************************************************************************)
(* Structs: literals, field access and nested assignment targets           *)
(***************************************************************************)
\* the literal family prints the values told while the literal is evaluated
\* (shapes 1 and 3), then the fields x, y, z
LiteralOutput(shape) ==
    IF shape \in {1, 3} THEN Ints(<<1, 2, 3, 1, 2, 3>>) ELSE Ints(<<1, 2, 3>>)

\* C17: for a struct literal that names the three declared fields in any
\* order, the field expressions are evaluated in declaration order, the code
\* then loads the struct-name constant and executes NewStruct(3), and field i
\* of the struct holds the value written for the i-th declared field.
C17_LiteralInDeclarationOrder ==
    prog.family = "literal" =>
        /\ ~Failed
        /\ IsPrefix(output, LiteralOutput(prog.shape))
        /\ Halted => output = LiteralOutput(prog.shape)
        /\ Compiled =>
              \A i \in DOMAIN chunk.code :
                 chunk.code[i].op = "NewStruct" =>
                    /\ chunk.code[i].a = 3
                    /\ i > 1
                    /\ chunk.code[i - 1].op = "LoadConst"
                    /\ chunk.constants[chunk.code[i - 1].a + 1] = VString("P")

\* var p = P { z: t(3), y: t(2), x: t(1) } has told 1, 2, 3 and p.x, p.y, p.z
\* have printed 1, 2, 3
C17_Witness ==
    /\ prog = [family |-> "literal", shape |-> 1, a |-> 6, b |-> 0]
    /\ Halted
    /\ output = Ints(<<1, 2, 3, 1, 2, 3>>)


\* C18: a program with a struct literal whose field names are not exactly the
\* declared field names, each once, is stopped by the type checker or by the
\* compiler: it is never compiled into a chunk and never executed.
C18_BadLiteralRejected ==
    prog.family = "badliteral" =>
        phase \in {"source", "checked", "type_error", "compile_error"}

\* struct Q { x: int, y: int }  let Q = 0;  print(Q { x: 1, y: 2, w: 3 }); has
\* run and printed the struct
C18_Witness ==
    /\ prog = [family |-> "badliteral", shape |-> 5, a |-> 0, b |-> 0]
    /\ Halted
    /\ output = <<VStruct("Q", Ints(<<1, 2>>))>>


\* the operands of the FieldGet and FieldSet instructions of a chunk and of
\* the function chunks among its constants
RECURSIVE FieldOperands(_)
FieldOperands(ch) ==
    {ch.code[i].a : i \in {j \in DOMAIN ch.code : ch.code[j].op \in {"FieldGet", "FieldSet"}}}
    \cup UNION {FieldOperands(ch.constants[j].v.chunk) :
                   j \in {n \in DOMAIN ch.constants : ch.constants[n].t = "Function"}}

\* the field family reads field a of o (holding a + 1), assigns 9 to it and
\* reads it again
FieldOutput(a) == Ints(<<(a % 3) + 1, 9>>)

\* C19: for o.f read and assigned where o is a variable of struct type P by
\* annotation or by initialiser, every emitted FieldGet and FieldSet carries
\* the position of f in the declaration of P, also inside a function body
\* that refers to the global o; so the program prints the field's value and
\* then the value assigned to it.
C19_FieldIndexIsPosition ==
    prog.family = "field" =>
        /\ ~Failed
        /\ Compiled => FieldOperands(chunk) = {prog.a % 3}
        /\ IsPrefix(output, FieldOutput(prog.a))
        /\ Halted => output = FieldOutput(prog.a)

\* var o = P { x: 1, y: 2, z: 3 }; fn r() { print(o.y); } r(); has printed 1:
\* the FieldGet in r carries index 0
C19_Witness ==
    /\ prog = [family |-> "field", shape |-> 3, a |-> 1, b |-> 0]
    /\ Running
    /\ output = Ints(<<1>>)
    /\ 0 \in FieldOperands(chunk)


\* C20: after an assignment of 9 through a nested target rooted in a
\* variable, a[i][j] = 9 or p.q.f = 9, a read of the same target yields 9.
C20_NestedAssignUpdates ==
    prog.family = "deep" =>
        /\ ~Failed
        /\ IsPrefix(output, Ints(<<9>>))
        /\ Halted => output = Ints(<<9>>)

\* var a = [[1, 2], [3, 4]]; a[1][0] = 9; print(a[1][0]); has printed 3
C20_Witness ==
    /\ prog = [family |-> "deep", shape |-> 1, a |-> 1, b |-> 0]
    /\ Halted
    /\ output = Ints(<<3>>)
    /\ globals["a"] = VArray(<<VArray(Ints(<<1, 2>>)), VArray(Ints(<<3, 4>>))>>)


\* the letbind family prints the element, field or value bound by `let`
\* before and after the assignment
LetOutput(a) == Ints(<<(a % 2) + 1, (a % 2) + 1>>)

\* C21: the value bound to a name declared with `let` never changes: an
\* accepted program that reads a[i], a.f or a, assigns 9 through the name and
\* reads again prints the initial value twice.
C21_LetNeverChanges ==
    prog.family = "letbind" =>
        /\ IsPrefix(output, LetOutput(prog.a))
        /\ Halted => output = LetOutput(prog.a)

\* let a = [1, 2]; print(a[0]); a[0] = 9; print(a[0]); was accepted, has
\* printed 1 and 9, and the global a holds [9, 2]
C21_Witness ==
    /\ prog = [family |-> "letbind", shape |-> 1, a |-> 0, b |-> 0]
    /\ Halted
    /\ output = Ints(<<1, 9>>)
    /\ globals["a"] = VArray(Ints(<<9, 2>>))


\* the type the checker holds for the target of the assign family and the
\* type of the value assigned
BoundType(pr) ==
    IF pr.shape = 4 THEN TFunction(<<>>, TUnknown) ELSE OrUnknown(TargetType(pr.a))

ValueType(b) ==
    CASE b = 2 -> TString
      [] b = 3 -> TBool
      [] b = 4 -> TArray(TInt)
      [] b = 5 -> TUnknown
      [] OTHER -> TInt

Numeric(t) == t \in {TInt, TFloat}

\* the types the claim lets an assignment through for: the same, both
\* numeric, or one of them Unknown
Assignable(t, v) == t = v \/ (Numeric(t) /\ Numeric(v)) \/ t = TUnknown \/ v = TUnknown

\* the same, both numeric, one of them Unknown, or two arrays whose element
\* types are so related
RECURSIVE AssignableDeep(_, _)
AssignableDeep(t, v) ==
    \/ Assignable(t, v)
    \/ t.k = "Array" /\ v.k = "Array" /\ AssignableDeep(t.elem, v.elem)

\* the outcome of checking a = e, given whether the types let it through
AssignOutcome(pr, assignable) ==
    IF pr.b = 6 THEN "InvalidOperation"
    ELSE IF pr.shape >= 5 THEN "UndefinedVariable"
    ELSE IF pr.shape \in {2, 3, 4} THEN "ImmutableAssignment"
    ELSE IF assignable THEN "ok"
    ELSE "TypeMismatch"

ArithType(op, t, v, unknown) ==
    IF unknown THEN TUnknown
    ELSE IF Numeric(t) /\ Numeric(v)
    THEN (IF t = TFloat \/ v = TFloat THEN TFloat ELSE TInt)
    ELSE IF op = "Add" /\ t = TString /\ v = TString THEN TString
    ELSE None

\* what check() left for var x = l op r: the type recorded for x, None
\* after an InvalidOperation error
ArithResult ==
    IF tc.err = "ok" THEN SymGet(tc.symbol_table, "x").v.symbol_type
    ELSE IF tc.err = "InvalidOperation" THEN None
    ELSE [k |-> tc.err]

LeftType == OrUnknown(TargetType(prog.a))
RightType == OrUnknown(TargetType(prog.b))

\* C23 as stated: for + - * /, infer_type yields Unknown when both operand
\* types are Unknown, Float or Int for two numeric operands (Float if either
\* is Float), String for + on two Strings, and InvalidOperation otherwise.
C23_ArithAsStated ==
    prog.family = "arith" /\ phase # "source" =>
        ArithResult = ArithType(ArithOp(prog.shape), LeftType, RightType,
                                LeftType = TUnknown /\ RightType = TUnknown)

\* C23 amended: Unknown when at least one operand type is Unknown; otherwise
\* Float or Int for two numeric operands (Float if either is Float), String
\* for + on two Strings, and InvalidOperation for every other pair.
C23_ArithTypes ==
    prog.family = "arith" /\ phase # "source" =>
        ArithResult = ArithType(ArithOp(prog.shape), LeftType, RightType,
                                LeftType = TUnknown \/ RightType = TUnknown)

\* var l: float = 1; var r = []; var x = l * r; was accepted with x: Unknown
C23_Witness ==
    /\ prog = [family |-> "arith", shape |-> 3, a |-> 2, b |-> 7]
    /\ phase = "checked"
    /\ ArithResult = TUnknown


\* the type check() recorded for x after var x = ...;
TypeOfX == SymGet(tc.symbol_table, "x").v.symbol_type

\* C24: type checking a[i] returns an error whenever the type of a is a
\* known type that is not an Array or the type of i is a known type that is
\* not Int; otherwise it yields the element type of a.
C24_IndexChecked ==
    prog.family = "index" /\ phase # "source" =>
        IF \/ LeftType # TUnknown /\ LeftType.k # "Array"
           \/ RightType # TUnknown /\ RightType # TInt
        THEN tc.err # "ok"
        ELSE /\ tc.err = "ok"
             /\ TypeOfX = IF LeftType.k = "Array" THEN LeftType.elem
                          ELSE TUnknown

\* var l: int = 1; var r: int = 1; var x = l[r]; passed check() with
\* x: Unknown, and the VM stopped on the ArrayGet of an integer
C24_Witness ==
    /\ prog = [family |-> "index", shape |-> 1, a |-> 1, b |-> 1]
    /\ phase = "error"
    /\ tc.err = "ok"
    /\ TypeOfX = TUnknown


\* C25: inside impl T { ... } the method table of T is complete before any
\* method body is checked or compiled: a body may call on self any method of
\* T, itself and methods declared later included, and the program passes
\* type checking and compilation.
C25_MethodsKnownInBodies ==
    prog.family = "impl" /\ phase # "source" =>
        /\ tc.err = "ok"
        /\ phase # "compile_error"

\* impl C { fn a(k) { return self.b(k); } fn b(k) { .. } } was rejected by
\* check() at self.b(k), and compile() on the same program fails there too
C25_Witness ==
    /\ prog = [family |-> "impl", shape |-> 1, a |-> 1, b |-> 0]
    /\ phase = "type_error"
    /\ tc.err = "UndefinedFunction"
    /\ compile(Program(prog)).err = "UndefinedVariable"


(***************************************************************************)
(* lexer: Lexer                                                            *)
(* A character is a one-character string; '\0' is written "NUL" and a      *)
(* character outside ASCII by its code point ("U+00E9").  The input and a  *)
(* token's value are sequences of characters, positions are 0-based.       *)
(* Line and column tracking is left out.  The source texts tried hold no   *)
(* raw string and no \u escape: these two paths answer "unmodelled".       *)
(***************************************************************************)
NoChar == ""
AsciiDigits == {"0", "1", "2", "3", "4", "5", "6", "7", "8", "9"}
HexLetters == {"a", "b", "c", "d", "e", "f", "A", "B", "C", "D", "E", "F"}
AsciiLetters ==
    {"a", "b", "c", "d", "e", "f", "g", "h", "i", "j", "k", "l", "m", "n", "o", "p",
     "q", "r", "s", "t", "u", "v", "w", "x", "y", "z", "A", "B", "C", "D", "E", "F",
     "G", "H", "I", "J", "K", "L", "M", "N", "O", "P", "Q", "R", "S", "T", "U", "V",
     "W", "X", "Y", "Z"}
\* the two letters outside ASCII that the texts use: e with acute (two bytes
\* in UTF-8) and a CJK ideograph (three bytes)
NonAsciiLetters == {"U+00E9", "U+4E2D"}
Whitespace == {" ", "\t", "\n", "\r"}

is_ascii_digit(ch) == ch \in AsciiDigits
is_ascii_hexdigit(ch) == ch \in AsciiDigits \cup HexLetters
is_alphabetic(ch) == ch \in AsciiLetters \cup NonAsciiLetters
is_alphanumeric(ch) == is_alphabetic(ch) \/ is_ascii_digit(ch)

\* (value as char) for the byte written \xHH: named by its escape
HexChar(h1, h2) == "\\x" \o h1 \o h2

\* char::len_utf8: the bytes a character takes in a String
len_utf8(ch) ==
    CASE ch = "U+00E9" -> 2
      [] ch = "U+4E2D" -> 3
      [] ch \in {HexChar(h1, h2) : h1 \in {"8", "9"} \cup HexLetters,
                                   h2 \in AsciiDigits \cup HexLetters} -> 2
      [] OTHER -> 1

\* self.current_char once self.position is `position`
CharAt(input, position) ==
    IF position < Len(input) THEN input[position + 1] ELSE NoChar

Token(token_type, value) == [token_type |-> token_type, value |-> value]
LexOk(token_type, value, position) ==
    [r |-> "Ok", token |-> Token(token_type, value), position |-> position]
LexErr(e) == [r |-> e, token |-> Token("EOF", <<>>), position |-> 0]

\* `while let Some(ch) = self.current_char { if allowed(ch) || ch == '_'
\* { if ch != '_' { value.push(ch); } self.advance(); } else { break; } }`
RECURSIVE TakeDigits(_, _, _, _)
TakeDigits(input, position, value, allowed) ==
    IF CharAt(input, position) \in allowed \cup {"_"}
    THEN TakeDigits(input, position + 1,
                    IF CharAt(input, position) = "_" THEN value
                    ELSE Append(value, CharAt(input, position)),
                    allowed)
    ELSE [value |-> value, position |-> position]

\* read_hex_number, read_binary_number, read_octal_number: the digits are
\* pushed after the prefix, which stays in the lexeme
PrefixedNumber(taken) ==
    IF Len(taken.value) <= 2 THEN LexErr("InvalidNumber")
    ELSE LexOk("Integer", taken.value, taken.position)

read_hex_number(input, position, value) ==
    PrefixedNumber(TakeDigits(input, position, value, AsciiDigits \cup HexLetters))
read_binary_number(input, position, value) ==
    PrefixedNumber(TakeDigits(input, position, value, {"0", "1"}))
read_octal_number(input, position, value) ==
    PrefixedNumber(TakeDigits(input, position, value,
                              {"0", "1", "2", "3", "4", "5", "6", "7"}))

\* the exponent of read_number, entered after 'e' or 'E' was read
Exponent(value, digits) ==
    IF Len(digits.value) = Len(value) THEN LexErr("InvalidNumber")
    ELSE LexOk("ScientificExponent", digits.value, digits.position)

ExponentSign(input, position, value) ==
    IF CharAt(input, position) \in {"+", "-"}
    THEN Exponent(Append(value, CharAt(input, position)),
                  TakeDigits(input, position + 1,
                             Append(value, CharAt(input, position)), AsciiDigits))
    ELSE Exponent(value, TakeDigits(input, position, value, AsciiDigits))

\* read_number after the fraction: the exponent, then the token type
NumberEnd(input, t, is_float) ==
    IF CharAt(input, t.position) \in {"e", "E"}
    THEN ExponentSign(input, t.position + 1, Append(t.value, "e"))
    ELSE LexOk(IF is_float THEN "Float" ELSE "Integer", t.value, t.position)

\* read_number after the integer part: the fraction
Fraction(input, t) ==
    IF CharAt(input, t.position) = "." /\ is_ascii_digit(CharAt(input, t.position + 1))
    THEN NumberEnd(input,
                   TakeDigits(input, t.position + 1, Append(t.value, "."), AsciiDigits),
                   TRUE)
    ELSE NumberEnd(input, t, FALSE)

read_number(input, position) ==
    IF CharAt(input, position) = "0" /\ CharAt(input, position + 1) \in {"x", "X"}
    THEN read_hex_number(input, position + 2, <<"0", "x">>)
    ELSE IF CharAt(input, position) = "0" /\ CharAt(input, position + 1) \in {"b", "B"}
    THEN read_binary_number(input, position + 2, <<"0", "b">>)
    ELSE IF CharAt(input, position) = "0" /\ CharAt(input, position + 1) \in {"o", "O"}
    THEN read_octal_number(input, position + 2, <<"0", "o">>)
    ELSE Fraction(input, TakeDigits(input, position, <<>>, AsciiDigits))

\* TokenType::get_keyword
get_keyword(word) ==
    CASE word = <<"l", "e", "t">> -> "Let"
      [] word = <<"v", "a", "r">> -> "Var"
      [] word = <<"f", "n">> -> "Fn"
      [] word = <<"r", "e", "t", "u", "r", "n">> -> "Return"
      [] word = <<"i", "f">> -> "If"
      [] word = <<"e", "l", "s", "e">> -> "Else"
      [] word = <<"w", "h", "i", "l", "e">> -> "While"
      [] word = <<"f", "o", "r">> -> "For"
      [] word = <<"i", "n">> -> "In"
      [] word = <<"b", "r", "e", "a", "k">> -> "Break"
      [] word = <<"c", "o", "n", "t", "i", "n", "u", "e">> -> "Continue"
      [] word = <<"t", "r", "u", "e">> -> "True"
      [] word = <<"f", "a", "l", "s", "e">> -> "False"
      [] word = <<"p", "r", "i", "n", "t">> -> "Print"
      [] word = <<"s", "t", "r", "u", "c", "t">> -> "Struct"
      [] word = <<"t", "y", "p", "e">> -> "Type"
      [] word = <<"i", "m", "p", "l">> -> "Impl"
      [] word = <<"p", "u", "b">> -> "Pub"
      [] word = <<"u", "s", "e">> -> "Use"
      [] word = <<"m", "o", "d">> -> "Mod"
      [] word = <<"a", "s">> -> "As"
      [] word = <<"m", "a", "c", "r", "o">> -> "Macro"
      [] word = <<"d", "e", "r", "i", "v", "e">> -> "Derive"
      [] word = <<"i", "n", "t">> -> "Int"
      [] word = <<"i", "n", "t", "6", "4">> -> "Int64"
      [] word = <<"f", "l", "o", "a", "t">> -> "Float64"
      [] word = <<"s", "t", "r", "i", "n", "g">> -> "String64"
      [] word = <<"b", "o", "o", "l">> -> "Bool"
      [] word = <<"v", "o", "i", "d">> -> "Void"
      [] word = <<"n", "u", "l", "l">> -> "Null"
      [] OTHER -> "Identifier"

RECURSIVE read_identifier(_, _, _)
read_identifier(input, position, value) ==
    IF is_alphanumeric(CharAt(input, position)) \/ CharAt(input, position) = "_"
    THEN read_identifier(input, position + 1, Append(value, CharAt(input, position)))
    ELSE LexOk(get_keyword(value), value, position)

\* read_hex_escape, entered after \x
read_hex_escape(input, position) ==
    IF is_ascii_hexdigit(CharAt(input, position))
       /\ is_ascii_hexdigit(CharAt(input, position + 1))
    THEN [r |-> "Ok",
          value |-> <<HexChar(CharAt(input, position), CharAt(input, position + 1))>>,
          position |-> position + 2]
    ELSE [r |-> "InvalidEscapeSequence", value |-> <<>>, position |-> position]

\* read_escape_sequence, entered after the backslash
read_escape_sequence(input, position) ==
    CASE CharAt(input, position) = "n" ->
            [r |-> "Ok", value |-> <<"\n">>, position |-> position + 1]
      [] CharAt(input, position) = "t" ->
            [r |-> "Ok", value |-> <<"\t">>, position |-> position + 1]
      [] CharAt(input, position) = "r" ->
            [r |-> "Ok", value |-> <<"\r">>, position |-> position + 1]
      [] CharAt(input, position) = "\\" ->
            [r |-> "Ok", value |-> <<"\\">>, position |-> position + 1]
      [] CharAt(input, position) = "\"" ->
            [r |-> "Ok", value |-> <<"\"">>, position |-> position + 1]
      [] CharAt(input, position) = "'" ->
            [r |-> "Ok", value |-> <<"'">>, position |-> position + 1]
      [] CharAt(input, position) = "0" ->
            [r |-> "Ok", value |-> <<"NUL">>, position |-> position + 1]
      [] CharAt(input, position) = "x" -> read_hex_escape(input, position + 1)
      [] CharAt(input, position) = "u" ->
            [r |-> "unmodelled", value |-> <<>>, position |-> position]
      [] OTHER -> [r |-> "InvalidEscapeSequence", value |-> <<>>, position |-> position]

\* the end of read_char and read_string: the closing quote
CloseQuote(input, body, token_type, quote) ==
    IF body.r # "Ok" THEN LexErr(body.r)
    ELSE IF CharAt(input, body.position) # quote THEN LexErr("UnterminatedString")
    ELSE LexOk(token_type, body.value, body.position + 1)

\* read_char, entered on the opening quote: at most one character or one
\* escape sequence is taken
read_char(input, position) ==
    CloseQuote(input,
               IF CharAt(input, position + 1) = "\\"
               THEN read_escape_sequence(input, position + 2)
               ELSE IF CharAt(input, position + 1) \notin {"'", NoChar}
               THEN [r |-> "Ok", value |-> <<CharAt(input, position + 1)>>,
                     position |-> position + 2]
               ELSE [r |-> "Ok", value |-> <<>>, position |-> position + 1],
               "Char", "'")

\* the loop of read_string
RECURSIVE StringBody(_, _, _)
AfterEscape(input, value, escape) ==
    IF escape.r # "Ok" THEN escape
    ELSE StringBody(input, escape.position, value \o escape.value)

StringBody(input, position, value) ==
    IF CharAt(input, position) \in {"\"", NoChar}
    THEN [r |-> "Ok", value |-> value, position |-> position]
    ELSE IF CharAt(input, position) = "\\"
    THEN AfterEscape(input, value, read_escape_sequence(input, position + 1))
    ELSE StringBody(input, position + 1, Append(value, CharAt(input, position)))

read_string(input, position) ==
    CloseQuote(input, StringBody(input, position + 1, <<>>), "String", "\"")

\* skip_whitespace and skip_comment, as next_token loops over them
RECURSIVE SkipLine(_, _)
SkipLine(input, position) ==
    IF CharAt(input, position) = NoChar THEN position
    ELSE IF CharAt(input, position) = "\n" THEN position + 1
    ELSE SkipLine(input, position + 1)

RECURSIVE Skip(_, _)
Skip(input, position) ==
    IF CharAt(input, position) \in Whitespace THEN Skip(input, position + 1)
    ELSE IF CharAt(input, position) = "/" /\ CharAt(input, position + 1) = "/"
    THEN Skip(input, SkipLine(input, position))
    ELSE position

\* the operators that take a second character, and the token types of the
\* one- and two-character forms
TwoCharacter(ch) ==
    CASE ch = "+" -> [second |-> "=", two |-> "PlusEqual", one |-> "Plus"]
      [] ch = "*" -> [second |-> "=", two |-> "StarEqual", one |-> "Star"]
      [] ch = "/" -> [second |-> "=", two |-> "SlashEqual", one |-> "Slash"]
      [] ch = "%" -> [second |-> "=", two |-> "PercentEqual", one |-> "Percent"]
      [] ch = "=" -> [second |-> "=", two |-> "EqualEqual", one |-> "Equal"]
      [] ch = "!" -> [second |-> "=", two |-> "BangEqual", one |-> "Bang"]
      [] ch = "<" -> [second |-> "=", two |-> "LessEqual", one |-> "Less"]
      [] ch = ">" -> [second |-> "=", two |-> "GreaterEqual", one |-> "Greater"]
      [] ch = "&" -> [second |-> "&", two |-> "And", one |-> "Unknown"]
      [] ch = "|" -> [second |-> "|", two |-> "Or", one |-> "Unknown"]
      [] ch = ":" -> [second |-> ":", two |-> "DoubleColon", one |-> "Colon"]
      [] ch = "." -> [second |-> ".", two |-> "DotDot", one |-> "Dot"]

OneCharacter(ch) ==
    CASE ch = "(" -> "LeftParen"
      [] ch = ")" -> "RightParen"
      [] ch = "{" -> "LeftBrace"
      [] ch = "}" -> "RightBrace"
      [] ch = "[" -> "LeftBracket"
      [] ch = "]" -> "RightBracket"
      [] ch = "," -> "Comma"
      [] ch = ";" -> "Semicolon"
      [] OTHER -> "Unknown"

Operator(input, position) ==
    IF CharAt(input, position) = "-"
    THEN (IF CharAt(input, position + 1) = "="
          THEN LexOk("MinusEqual", <<"-", "=">>, position + 2)
          ELSE IF CharAt(input, position + 1) = ">"
          THEN LexOk("Arrow", <<"-", ">">>, position + 2)
          ELSE LexOk("Minus", <<"-">>, position + 1))
    ELSE IF CharAt(input, position)
                \in {"+", "*", "/", "%", "=", "!", "<", ">", "&", "|", ":", "."}
    THEN (IF CharAt(input, position + 1) = TwoCharacter(CharAt(input, position)).second
          THEN LexOk(TwoCharacter(CharAt(input, position)).two,
                     <<CharAt(input, position), CharAt(input, position + 1)>>,
                     position + 2)
          ELSE LexOk(TwoCharacter(CharAt(input, position)).one,
                     <<CharAt(input, position)>>, position + 1))
    ELSE LexOk(OneCharacter(CharAt(input, position)), <<CharAt(input, position)>>,
               position + 1)

\* next_token once whitespace and comments are skipped
TokenFrom(input, position) ==
    IF CharAt(input, position) = NoChar THEN LexOk("EOF", <<>>, position)
    ELSE IF is_ascii_digit(CharAt(input, position)) THEN read_number(input, position)
    ELSE IF is_alphabetic(CharAt(input, position)) \/ CharAt(input, position) = "_"
    THEN (IF CharAt(input, position) = "r" /\ CharAt(input, position + 1) = "\""
          THEN LexErr("unmodelled")
          ELSE read_identifier(input, position, <<>>))
    ELSE IF CharAt(input, position) = "\"" THEN read_string(input, position)
    ELSE IF CharAt(input, position) = "'" THEN read_char(input, position)
    ELSE Operator(input, position)

next_token(input, position) == TokenFrom(input, Skip(input, position))

\* tokenize: the tokens up to and with EOF, or the first error
RECURSIVE tokenize(_, _, _)
Tokenized(input, tokens, t) ==
    IF t.r # "Ok" THEN [r |-> t.r, tokens |-> <<>>]
    ELSE IF t.token.token_type = "EOF"
    THEN [r |-> "Ok", tokens |-> Append(tokens, t.token)]
    ELSE tokenize(input, t.position, Append(tokens, t.token))

tokenize(input, position, tokens) ==
    Tokenized(input, tokens, next_token(input, position))


(***************************************************************************)
(* parser: Parser                                                          *)
(* A parsing function takes the token vector and Parser.current and        *)
(* answers r = "Ok" with the node v and the new current, a ParseError      *)
(* ("UnexpectedToken", "InvalidExpression"), or "panic" where the source   *)
(* unwraps an Err.  The texts tried hold none of the declaration keywords  *)
(* (pub let var fn struct type impl mod use): there declaration() answers  *)
(* "unmodelled".                                                           *)
(***************************************************************************)
EFloat(v) == [k |-> "Float", v |-> v]
EChar(c) == [k |-> "Char", v |-> c]

POk(v, cur) == [r |-> "Ok", v |-> v, cur |-> cur]
PFail(e) == [r |-> e, v |-> None, cur |-> 0]

\* current_token / peek: past the end of the vector an EOF token is made up
TokenAt(toks, cur) == IF cur < Len(toks) THEN toks[cur + 1] ELSE Token("EOF", <<>>)
check(toks, cur, token_type) == TokenAt(toks, cur).token_type = token_type

\* str::parse::<i64>: decimal digits only, an Err for an empty string, for any
\* other character and for a value above i64::MAX
I64MaxDigits ==
    <<"9", "2", "2", "3", "3", "7", "2", "0", "3", "6", "8", "5", "4", "7", "7", "5",
      "8", "0", "7">>

RECURSIVE StripZeros(_)
StripZeros(value) ==
    IF Len(value) > 1 /\ Head(value) = "0" THEN StripZeros(Tail(value)) ELSE value

DigitOf(ch) == CHOOSE i \in 0..9 : ToString(i) = ch

\* x <= y for two digit strings of the same length
RECURSIVE DigitsLessEq(_, _)
DigitsLessEq(x, y) ==
    IF x = <<>> THEN TRUE
    ELSE IF Head(x) = Head(y) THEN DigitsLessEq(Tail(x), Tail(y))
    ELSE DigitOf(Head(x)) < DigitOf(Head(y))

RECURSIVE Decimal(_, _)
Decimal(digits, n) ==
    IF digits = <<>> THEN n
    ELSE Decimal(Tail(digits), 10 * n + DigitOf(Head(digits)))

\* the i64 a lexeme parses to: its number, or its digits where the number has
\* more than nine digits and is beyond the integers of the model
ParseI64(value) ==
    IF value = <<>> \/ \E i \in DOMAIN value : ~is_ascii_digit(value[i])
    THEN [r |-> "Err", v |-> 0]
    ELSE IF Len(StripZeros(value)) > Len(I64MaxDigits)
            \/ (Len(StripZeros(value)) = Len(I64MaxDigits)
                /\ ~DigitsLessEq(StripZeros(value), I64MaxDigits))
    THEN [r |-> "Err", v |-> 0]
    ELSE IF Len(StripZeros(value)) <= 9
    THEN [r |-> "Ok", v |-> Decimal(StripZeros(value), 0)]
    ELSE [r |-> "Ok", v |-> StripZeros(value)]

\* `.parse::<i64>().unwrap()`
IntegerLiteral(parsed, cur) ==
    IF parsed.r = "Ok" THEN POk(EInt(parsed.v), cur) ELSE PFail("panic")

\* the Char arm of primary: the first character of a value of two bytes or
\* more, '\0' for a shorter one
Bytes(value) == IF value = <<>> THEN 0 ELSE len_utf8(value[1]) + (Len(value) - 1)
CharLiteral(value) == IF Bytes(value) >= 2 THEN EChar(value[1]) ELSE EChar("NUL")

BinaryOps(level) ==
    CASE level = 1 -> {"Or"}
      [] level = 2 -> {"And"}
      [] level = 3 -> {"EqualEqual", "BangEqual"}
      [] level = 4 -> {"Greater", "GreaterEqual", "Less", "LessEqual"}
      [] level = 5 -> {"Plus", "Minus"}
      [] OTHER -> {"Star", "Slash", "Percent"}

\* the BinaryOp each operator token stands for; a compound assignment token
\* stands for the operator it applies
BinaryOp(token_type) ==
    CASE token_type = "EqualEqual" -> "Equal"
      [] token_type = "BangEqual" -> "NotEqual"
      [] token_type \in {"Plus", "PlusEqual"} -> "Add"
      [] token_type \in {"Minus", "MinusEqual"} -> "Subtract"
      [] token_type \in {"Star", "StarEqual"} -> "Multiply"
      [] token_type \in {"Slash", "SlashEqual"} -> "Divide"
      [] token_type \in {"Percent", "PercentEqual"} -> "Modulo"
      [] OTHER -> token_type

CompoundAssign == {"PlusEqual", "MinusEqual", "StarEqual", "SlashEqual", "PercentEqual"}

RECURSIVE assignment(_, _)
RECURSIVE Binary(_, _, _)
RECURSIVE BinaryLoop(_, _, _)
RECURSIVE unary(_, _)
RECURSIVE call(_, _)
RECURSIVE ExprList(_, _, _)
RECURSIVE StructFields(_, _, _)
RECURSIVE PathSegments(_, _, _)

expression(toks, cur) == assignment(toks, cur)

\* `self.consume(close, ..)?` after a parsed part, then the node built from it
Closed(toks, part, close, node) ==
    IF part.r # "Ok" THEN part
    ELSE IF check(toks, part.cur, close) THEN POk(node, part.cur + 1)
    ELSE PFail("UnexpectedToken")

\* `loop { list.push(self.expression()?); if !self.match_token(&[Comma])
\* { break; } }`
ExprListNext(toks, list, e) ==
    IF e.r # "Ok" THEN e
    ELSE IF check(toks, e.cur, "Comma")
    THEN ExprList(toks, e.cur + 1, Append(list, e.v))
    ELSE POk(Append(list, e.v), e.cur)

ExprList(toks, cur, list) == ExprListNext(toks, list, expression(toks, cur))

\* the expressions up to the closing token, which is left unread
ExprsUntil(toks, cur, close) ==
    IF check(toks, cur, close) THEN POk(<<>>, cur) ELSE ExprList(toks, cur, <<>>)

CallNode(toks, callee, arguments) ==
    Closed(toks, arguments, "RightParen", ECall(callee, arguments.v))
finish_call(toks, callee, cur) ==
    CallNode(toks, callee, ExprsUntil(toks, cur, "RightParen"))

MethodCallNode(toks, object, method, arguments) ==
    Closed(toks, arguments, "RightParen", EMethodCall(object, method, arguments.v))
finish_method_call(toks, object, method, cur) ==
    MethodCallNode(toks, object, method, ExprsUntil(toks, cur, "RightParen"))

\* the fields of a struct literal: `while !check(RightBrace) && !check(EOF)
\* { name ':' expression; if !match(Comma) { break; } }`
StructFieldNext(toks, fields, name, e) ==
    IF e.r # "Ok" THEN e
    ELSE IF check(toks, e.cur, "Comma")
    THEN StructFields(toks, e.cur + 1, Append(fields, FieldInit(name, e.v)))
    ELSE POk(Append(fields, FieldInit(name, e.v)), e.cur)

StructFields(toks, cur, fields) ==
    IF check(toks, cur, "RightBrace") \/ check(toks, cur, "EOF") THEN POk(fields, cur)
    ELSE IF ~check(toks, cur, "Identifier") \/ ~check(toks, cur + 1, "Colon")
    THEN PFail("UnexpectedToken")
    ELSE StructFieldNext(toks, fields, TokenAt(toks, cur).value,
                         expression(toks, cur + 2))

StructLiteralNode(toks, name, fields) ==
    Closed(toks, fields, "RightBrace", EStructLiteral(name, fields.v))

\* `while self.match_token(&[DoubleColon]) { segments.push(consume(Identifier)?) }`
PathSegments(toks, cur, segments) ==
    IF ~check(toks, cur, "DoubleColon") THEN POk(EPath(segments), cur)
    ELSE IF ~check(toks, cur + 1, "Identifier") THEN PFail("UnexpectedToken")
    ELSE PathSegments(toks, cur + 2, Append(segments, TokenAt(toks, cur + 1).value))

ArrayNode(toks, elements) ==
    Closed(toks, elements, "RightBracket", EArray(elements.v))

Grouping(toks, e) == Closed(toks, e, "RightParen", e.v)

primary(toks, cur) ==
    CASE check(toks, cur, "True") -> POk(EBool(TRUE), cur + 1)
      [] check(toks, cur, "False") -> POk(EBool(FALSE), cur + 1)
      [] check(toks, cur, "Integer") ->
            IntegerLiteral(ParseI64(TokenAt(toks, cur).value), cur + 1)
      [] check(toks, cur, "Float") -> POk(EFloat(TokenAt(toks, cur).value), cur + 1)
      [] check(toks, cur, "String") -> POk(EStr(TokenAt(toks, cur).value), cur + 1)
      [] check(toks, cur, "Char") -> POk(CharLiteral(TokenAt(toks, cur).value), cur + 1)
      [] check(toks, cur, "Identifier") ->
            IF check(toks, cur + 1, "DoubleColon")
            THEN PathSegments(toks, cur + 1, <<TokenAt(toks, cur).value>>)
            ELSE IF check(toks, cur + 1, "LeftBrace")
            THEN StructLiteralNode(toks, TokenAt(toks, cur).value,
                                   StructFields(toks, cur + 2, <<>>))
            ELSE POk(EIdent(TokenAt(toks, cur).value), cur + 1)
      [] check(toks, cur, "LeftParen") -> Grouping(toks, expression(toks, cur + 1))
      [] check(toks, cur, "LeftBracket") ->
            ArrayNode(toks, ExprsUntil(toks, cur + 1, "RightBracket"))
      [] OTHER -> PFail("InvalidExpression")

\* the loop of call(): calls, indexing, field access and method calls
IndexNode(toks, object, index) ==
    Closed(toks, index, "RightBracket", EIndex(object, index.v))

RECURSIVE CallLoop(_, _)
CallLoop(toks, expr) ==
    IF expr.r # "Ok" THEN expr
    ELSE IF check(toks, expr.cur, "LeftParen")
    THEN CallLoop(toks, finish_call(toks, expr.v, expr.cur + 1))
    ELSE IF check(toks, expr.cur, "LeftBracket")
    THEN CallLoop(toks, IndexNode(toks, expr.v, expression(toks, expr.cur + 1)))
    ELSE IF check(toks, expr.cur, "Dot")
    THEN (IF ~check(toks, expr.cur + 1, "Identifier") THEN PFail("UnexpectedToken")
          ELSE IF check(toks, expr.cur + 2, "LeftParen")
          THEN CallLoop(toks, finish_method_call(toks, expr.v,
                                  TokenAt(toks, expr.cur + 1).value, expr.cur + 3))
          ELSE CallLoop(toks, POk(EFieldAccess(expr.v, TokenAt(toks, expr.cur + 1).value),
                                  expr.cur + 2)))
    ELSE expr

call(toks, cur) == CallLoop(toks, primary(toks, cur))

UnaryNode(operator, operand) ==
    IF operand.r # "Ok" THEN operand
    ELSE POk(EUnary(operator, operand.v), operand.cur)

unary(toks, cur) ==
    IF check(toks, cur, "Bang") THEN UnaryNode("Not", unary(toks, cur + 1))
    ELSE IF check(toks, cur, "Minus") THEN UnaryNode("Negate", unary(toks, cur + 1))
    ELSE call(toks, cur)

\* or, and, equality, comparison, term and factor are the levels 1 to 6 of
\* one loop: `let mut expr = next()?; while self.match_token(ops)
\* { let right = next()?; expr = Expr::binary(expr, op, right); }`
BinaryRight(toks, left, operator, right, level) ==
    IF right.r # "Ok" THEN right
    ELSE BinaryLoop(toks, POk(EBinary(left.v, operator, right.v), right.cur), level)

BinaryLoop(toks, left, level) ==
    IF left.r # "Ok" THEN left
    ELSE IF TokenAt(toks, left.cur).token_type \in BinaryOps(level)
    THEN BinaryRight(toks, left, BinaryOp(TokenAt(toks, left.cur).token_type),
                     Binary(toks, left.cur + 1, level + 1), level)
    ELSE left

Binary(toks, cur, level) ==
    IF level > 6 THEN unary(toks, cur)
    ELSE BinaryLoop(toks, Binary(toks, cur, level + 1), level)

\* the node an assignment to `target` builds
AssignNode(target, value) ==
    CASE target.k = "Identifier" -> EAssign(target.name, value)
      [] target.k = "Index" -> EIndexAssign(target.object, target.index, value)
      [] target.k = "FieldAccess" -> EFieldAssign(target.object, target.field, value)

\* x op= y is turned into x = x op y
AssignValue(target, operator, value) ==
    IF value.r # "Ok" THEN value
    ELSE POk(AssignNode(target,
                        IF operator = "Equal" THEN value.v
                        ELSE EBinary(target, BinaryOp(operator), value.v)),
             value.cur)

\* assignment() after `let expr = self.or()?`: match_token reads the operator,
\* the three targets parse a value, and `_ => {}` falls through to Ok(expr)
\* with the operator read
AfterOr(toks, expr) ==
    IF expr.r # "Ok" THEN expr
    ELSE IF TokenAt(toks, expr.cur).token_type \in {"Equal"} \cup CompoundAssign
    THEN (IF expr.v.k \in {"Identifier", "Index", "FieldAccess"}
          THEN AssignValue(expr.v, TokenAt(toks, expr.cur).token_type,
                           assignment(toks, expr.cur + 1))
          ELSE POk(expr.v, expr.cur + 1))
    ELSE expr

assignment(toks, cur) == AfterOr(toks, Binary(toks, cur, 1))

DeclarationKeywords ==
    {"Pub", "Let", "Var", "Fn", "Struct", "Type", "Impl", "Mod", "Use"}

RECURSIVE declaration(_, _)
RECURSIVE BlockBody(_, _, _)

\* `while !check(RightBrace) && !check(EOF) { body.push(self.declaration()?); }`
BlockNext(toks, body, s) ==
    IF s.r # "Ok" THEN s ELSE BlockBody(toks, s.cur, Append(body, s.v))

BlockBody(toks, cur, body) ==
    IF check(toks, cur, "RightBrace") \/ check(toks, cur, "EOF") THEN POk(body, cur)
    ELSE BlockNext(toks, body, declaration(toks, cur))

\* consume(LeftBrace), the declarations, consume(RightBrace)
BracedBody(toks, body) == Closed(toks, body, "RightBrace", body.v)
Braced(toks, cur) ==
    IF ~check(toks, cur, "LeftBrace") THEN PFail("UnexpectedToken")
    ELSE BracedBody(toks, BlockBody(toks, cur + 1, <<>>))

Terminated(toks, e, node) == Closed(toks, e, "Semicolon", node)

ElseBranch(condition, then_branch, else_branch) ==
    IF else_branch.r # "Ok" THEN else_branch
    ELSE POk(SIf(condition, then_branch, Some(else_branch.v)), else_branch.cur)

ThenBranch(toks, condition, then_branch) ==
    IF then_branch.r # "Ok" THEN then_branch
    ELSE IF check(toks, then_branch.cur, "Else")
    THEN ElseBranch(condition, then_branch.v, Braced(toks, then_branch.cur + 1))
    ELSE POk(SIf(condition, then_branch.v, None), then_branch.cur)

IfBody(toks, condition) ==
    IF condition.r # "Ok" THEN condition
    ELSE ThenBranch(toks, condition.v, Braced(toks, condition.cur))

if_statement(toks, cur) == IfBody(toks, expression(toks, cur))

WhileNode(condition, body) ==
    IF body.r # "Ok" THEN body ELSE POk(SWhile(condition, body.v), body.cur)

WhileBody(toks, condition) ==
    IF condition.r # "Ok" THEN condition
    ELSE WhileNode(condition.v, Braced(toks, condition.cur))

while_statement(toks, cur) == WhileBody(toks, expression(toks, cur))

ForNode(variable, start, end, body) ==
    IF body.r # "Ok" THEN body ELSE POk(SFor(variable, start, end, body.v), body.cur)

ForBody(toks, variable, start, end) ==
    IF end.r # "Ok" THEN end
    ELSE ForNode(variable, start, end.v, Braced(toks, end.cur))

ForEnd(toks, variable, start) ==
    IF start.r # "Ok" THEN start
    ELSE IF ~check(toks, start.cur, "DotDot") THEN PFail("UnexpectedToken")
    ELSE ForBody(toks, variable, start.v, expression(toks, start.cur + 1))

for_statement(toks, cur) ==
    IF ~check(toks, cur, "Identifier") \/ ~check(toks, cur + 1, "In")
    THEN PFail("UnexpectedToken")
    ELSE ForEnd(toks, TokenAt(toks, cur).value, expression(toks, cur + 2))

PrintNode(toks, value) ==
    IF value.r # "Ok" THEN value
    ELSE IF ~check(toks, value.cur, "RightParen")
            \/ ~check(toks, value.cur + 1, "Semicolon")
    THEN PFail("UnexpectedToken")
    ELSE POk(SPrint(value.v), value.cur + 2)

print_statement(toks, cur) ==
    IF ~check(toks, cur, "LeftParen") THEN PFail("UnexpectedToken")
    ELSE PrintNode(toks, expression(toks, cur + 1))

ReturnNode(toks, value) == Terminated(toks, value, SReturn(value.v))

return_statement(toks, cur) ==
    IF check(toks, cur, "Semicolon") THEN POk(SReturn(None), cur + 1)
    ELSE ReturnNode(toks, expression(toks, cur))

BlockNode(toks, body) == Closed(toks, body, "RightBrace", SBlock(body.v))
block_statement(toks, cur) == BlockNode(toks, BlockBody(toks, cur, <<>>))

ExpressionNode(toks, e) == Terminated(toks, e, SExpr(e.v))
expression_statement(toks, cur) == ExpressionNode(toks, expression(toks, cur))

statement(toks, cur) ==
    CASE check(toks, cur, "Return") -> return_statement(toks, cur + 1)
      [] check(toks, cur, "Break") -> Terminated(toks, POk(None, cur + 1), SBreak)
      [] check(toks, cur, "Continue") -> Terminated(toks, POk(None, cur + 1), SContinue)
      [] check(toks, cur, "If") -> if_statement(toks, cur + 1)
      [] check(toks, cur, "While") -> while_statement(toks, cur + 1)
      [] check(toks, cur, "For") -> for_statement(toks, cur + 1)
      [] check(toks, cur, "Print") -> print_statement(toks, cur + 1)
      [] check(toks, cur, "LeftBrace") -> block_statement(toks, cur + 1)
      [] OTHER -> expression_statement(toks, cur)

declaration(toks, cur) ==
    IF TokenAt(toks, cur).token_type \in DeclarationKeywords THEN PFail("unmodelled")
    ELSE statement(toks, cur)


(***************************************************************************)
(* The front end: main.rs hands the source text to Lexer::tokenize and     *)
(* the tokens to Parser::parse, which reads one declaration after the      *)
(* other up to EOF.  fe.result is "source" before tokenize, "tokens" while *)
(* the parser runs, then "Ok", "LexerError", a ParseError or "panic".      *)
(***************************************************************************)
MaxPrefix == 5      \* number family: none, 0x, 0b, 0o, 0X
MaxDigits == 42     \* number family: the digit strings of length 0 to 2
MaxBig == 5         \* number family: the long literals
MaxContent == 56    \* char family: the contents of length 0 to 2
MaxCond == 10       \* cond family
MaxBody == 4        \* cond family
MaxLhs == 10        \* assignop family
MaxOp == 6          \* assignop family
MaxRhs == 5         \* assignop family

\* the k-th string of length 0 to 2 over an alphabet, k = 0 the empty one;
\* k is taken modulo the number of such strings
ShortAt(alphabet, k) ==
    IF k = 0 THEN <<>>
    ELSE IF k <= Len(alphabet) THEN <<alphabet[k]>>
    ELSE << alphabet[((k - Len(alphabet) - 1) \div Len(alphabet)) + 1],
            alphabet[((k - Len(alphabet) - 1) % Len(alphabet)) + 1] >>

Short(alphabet, k) ==
    ShortAt(alphabet, k % (1 + Len(alphabet) + Len(alphabet) * Len(alphabet)))

Nines(n) == [i \in 1..n |-> "9"]

\* number family, shape 1: prefix and digits; shape 2: a long literal (18
\* nines, i64::MAX, i64::MAX + 1, 20 nines, 1_000); other: a float, an
\* exponent, an empty exponent, a float with an exponent, a comment
NumberPrefix(a) ==
    CASE a = 2 -> <<"0", "x">>
      [] a = 3 -> <<"0", "b">>
      [] a = 4 -> <<"0", "o">>
      [] a = 5 -> <<"0", "X">>
      [] OTHER -> <<>>

NumberLiteral(shape, a, b) ==
    CASE shape = 1 -> NumberPrefix(a) \o Short(<<"0", "1", "7", "9", "F", "_">>, b)
      [] shape = 2 ->
            (CASE a = 1 -> Nines(18)
               [] a = 2 -> I64MaxDigits
               [] a = 3 -> SubSeq(I64MaxDigits, 1, 18) \o <<"8">>
               [] a = 4 -> Nines(20)
               [] OTHER -> <<"1", "_", "0", "0", "0">>)
      [] OTHER ->
            (CASE a = 1 -> <<"1", ".", "5">>
               [] a = 2 -> <<"1", "e", "5">>
               [] a = 3 -> <<"1", "e">>
               [] a = 4 -> <<"1", ".", "5", "e", "-", "3">>
               [] OTHER -> <<"1", " ", "/", "/", "x", "\n">>)

NumberText(shape, a, b) == NumberLiteral(shape, a, b) \o <<";">>

\* char family, shape 1: a content of length 0 to 2 between quotes; other:
\* the escape \x with two more characters
CharContent(shape, a, b) ==
    IF shape = 1 THEN Short(<<"a", "n", "0", "\\", "'", "U+00E9", "U+4E2D">>, b)
    ELSE <<"\\", "x">> \o Short(<<"4", "1", "E", "g">>, 5 + (b % 16))

CharText(shape, a, b) == <<"'">> \o CharContent(shape, a, b) \o <<"'", ";">>

\* texts are written word by word and joined with spaces
RECURSIVE Spaced(_)
Spaced(words) ==
    IF words = <<>> THEN <<>>
    ELSE IF Len(words) = 1 THEN Head(words)
    ELSE Head(words) \o <<" ">> \o Spaced(Tail(words))

IdA == <<"a">>
IdB == <<"b">>
IdF == <<"f">>
One == <<"1">>

\* cond family: the condition of an if or a while and the end of a for range,
\* as words and as the expression they stand for
CondWords(a) ==
    CASE a = 1 -> <<IdA>>
      [] a = 2 -> <<IdA, <<"=", "=">>, IdB>>
      [] a = 3 -> <<One, <<"<">>, IdA>>
      [] a = 4 -> <<<<"!">>, IdA>>
      [] a = 5 -> <<IdA, <<".">>, IdF>>
      [] a = 6 -> <<IdF, <<"(">>, IdA, <<")">>>>
      [] a = 7 -> <<IdA, <<"[">>, One, <<"]">>>>
      [] a = 8 -> <<One>>
      [] a = 9 -> <<<<"(">>, IdA, <<")">>>>
      [] OTHER -> <<IdA, <<"=", "=">>, One>>

CondExpr(a) ==
    CASE a = 1 -> EIdent(IdA)
      [] a = 2 -> EBinary(EIdent(IdA), "Equal", EIdent(IdB))
      [] a = 3 -> EBinary(EInt(1), "Less", EIdent(IdA))
      [] a = 4 -> EUnary("Not", EIdent(IdA))
      [] a = 5 -> EFieldAccess(EIdent(IdA), IdF)
      [] a = 6 -> ECall(EIdent(IdF), <<EIdent(IdA)>>)
      [] a = 7 -> EIndex(EIdent(IdA), EInt(1))
      [] a = 8 -> EInt(1)
      [] a = 9 -> EIdent(IdA)
      [] OTHER -> EBinary(EIdent(IdA), "Equal", EInt(1))

KwPrint == <<"p", "r", "i", "n", "t">>

BodyWords(b) ==
    CASE b = 1 -> <<>>
      [] b = 2 -> <<IdB, <<";">>>>
      [] b = 3 -> <<KwPrint, <<"(">>, IdA, <<")">>, <<";">>>>
      [] OTHER -> <<IdB, <<"=">>, One, <<";">>>>

BodyStmts(b) ==
    CASE b = 1 -> <<>>
      [] b = 2 -> <<SExpr(EIdent(IdB))>>
      [] b = 3 -> <<SPrint(EIdent(IdA))>>
      [] OTHER -> <<SExpr(EAssign(IdB, EInt(1)))>>

\* shape 1: if c { body }; shape 2: while c { body }; shape 3:
\* for b in 1 .. c { body }; other: if c { body } else { body }
CondText(shape, a, b) ==
    Spaced((CASE shape = 1 -> <<<<"i", "f">>>>
              [] shape = 2 -> <<<<"w", "h", "i", "l", "e">>>>
              [] shape = 3 -> <<<<"f", "o", "r">>, IdB, <<"i", "n">>, One, <<".", ".">>>>
              [] OTHER -> <<<<"i", "f">>>>)
           \o CondWords(a) \o <<<<"{">>>> \o BodyWords(b) \o <<<<"}">>>>
           \o (IF shape \in 1..3 THEN <<>>
               ELSE <<<<"e", "l", "s", "e">>, <<"{">>>> \o BodyWords(b) \o <<<<"}">>>>))

CondStmt(shape, a, b) ==
    CASE shape = 1 -> SIf(CondExpr(a), BodyStmts(b), None)
      [] shape = 2 -> SWhile(CondExpr(a), BodyStmts(b))
      [] shape = 3 -> SFor(IdB, EInt(1), CondExpr(a), BodyStmts(b))
      [] OTHER -> SIf(CondExpr(a), BodyStmts(b), Some(BodyStmts(b)))

\* assignop family: target op value ; with the target one of a, a[1], a.f
\* and of 1, a + 1, f(), -a, a.f(), [1], true
LhsWords(t) ==
    CASE t = 1 -> <<IdA>>
      [] t = 2 -> <<IdA, <<"[">>, One, <<"]">>>>
      [] t = 3 -> <<IdA, <<".">>, IdF>>
      [] t = 4 -> <<One>>
      [] t = 5 -> <<IdA, <<"+">>, One>>
      [] t = 6 -> <<IdF, <<"(">>, <<")">>>>
      [] t = 7 -> <<<<"-">>, IdA>>
      [] t = 8 -> <<IdA, <<".">>, IdF, <<"(">>, <<")">>>>
      [] t = 9 -> <<<<"[">>, One, <<"]">>>>
      [] OTHER -> <<<<"t", "r", "u", "e">>>>

LhsExpr(t) ==
    CASE t = 1 -> EIdent(IdA)
      [] t = 2 -> EIndex(EIdent(IdA), EInt(1))
      [] t = 3 -> EFieldAccess(EIdent(IdA), IdF)
      [] t = 4 -> EInt(1)
      [] t = 5 -> EBinary(EIdent(IdA), "Add", EInt(1))
      [] t = 6 -> ECall(EIdent(IdF), <<>>)
      [] t = 7 -> EUnary("Negate", EIdent(IdA))
      [] t = 8 -> EMethodCall(EIdent(IdA), IdF, <<>>)
      [] t = 9 -> EArray(<<EInt(1)>>)
      [] OTHER -> EBool(TRUE)

OpWord(o) ==
    CASE o = 1 -> <<"=">>
      [] o = 2 -> <<"+", "=">>
      [] o = 3 -> <<"-", "=">>
      [] o = 4 -> <<"*", "=">>
      [] o = 5 -> <<"/", "=">>
      [] OTHER -> <<"%", "=">>

\* the values: 1, b, b = 1, nothing, and b + 1
RhsWords(v) ==
    CASE v = 1 -> <<One>>
      [] v = 2 -> <<IdB>>
      [] v = 3 -> <<IdB, <<"=">>, One>>
      [] v = 4 -> <<>>
      [] OTHER -> <<IdB, <<"+">>, One>>

RhsExpr(v) ==
    CASE v = 1 -> EInt(1)
      [] v = 2 -> EIdent(IdB)
      [] v = 3 -> EAssign(IdB, EInt(1))
      [] v = 4 -> None
      [] OTHER -> EBinary(EIdent(IdB), "Add", EInt(1))

AssignOpText(t, o, v) ==
    Spaced(LhsWords(t) \o <<OpWord(o)>> \o RhsWords(v) \o <<<<";">>>>)

Text(pr) ==
    CASE pr.family = "number" -> NumberText(pr.shape, pr.a, pr.b)
      [] pr.family = "char" -> CharText(pr.shape, pr.a, pr.b)
      [] pr.family = "cond" -> CondText(pr.shape, pr.a, pr.b)
      [] pr.family = "assignop" -> AssignOpText(pr.shape, pr.a, pr.b)

Texts ==
    [family : {"number"}, shape : {1}, a : 1..MaxPrefix, b : 0..MaxDigits]
    \cup [family : {"number"}, shape : {2, 3}, a : 1..MaxBig, b : {0}]
    \cup [family : {"char"}, shape : {1}, a : {0}, b : 0..MaxContent]
    \cup [family : {"char"}, shape : {2}, a : {0}, b : 0..15]
    \cup [family : {"cond"}, shape : 1..MaxShape, a : 1..MaxCond, b : 1..MaxBody]
    \cup [family : {"assignop"}, shape : 1..MaxLhs, a : 1..MaxOp, b : 1..MaxRhs]

InitFront ==
    /\ prog \in Texts
    /\ phase = "source"
    /\ IdlePipeline
    /\ IdleLoader
    /\ IdleResolve
    /\ fe = [input |-> Text(prog), tokens |-> <<>>, current |-> 0,
             statements |-> <<>>, result |-> "source"]
    /\ IdleInterpreter

\* Lexer::tokenize on the whole input
Tokenize ==
    /\ fe.result = "source"
    /\ \E t \in {tokenize(fe.input, 0, <<>>)} :
          fe' = IF t.r = "Ok" THEN [fe EXCEPT !.tokens = t.tokens, !.result = "tokens"]
                ELSE [fe EXCEPT !.result = "LexerError"]
    /\ UNCHANGED <<pipelineVars, loaderVars, rt, it>>

\* Parser::parse, one turn of `while !self.check(EOF) { self.declaration()? }`
ParseDeclaration ==
    /\ fe.result = "tokens"
    /\ ~check(fe.tokens, fe.current, "EOF")
    /\ \E d \in {declaration(fe.tokens, fe.current)} :
          fe' = IF d.r = "Ok"
                THEN [fe EXCEPT !.statements = Append(@, d.v), !.current = d.cur]
                ELSE [fe EXCEPT !.result = d.r]
    /\ UNCHANGED <<pipelineVars, loaderVars, rt, it>>

\* Parser::parse returns Ok(program) at EOF
ParseEnd ==
    /\ fe.result = "tokens"
    /\ check(fe.tokens, fe.current, "EOF")
    /\ fe' = [fe EXCEPT !.result = "Ok"]
    /\ UNCHANGED <<pipelineVars, loaderVars, rt, it>>

NextFront ==
    \/ Tokenize
    \/ ParseDeclaration
    \/ ParseEnd

SpecFront == InitFront /\ [][NextFront]_vars


Parsed == fe.result \notin {"idle", "source", "tokens"}
ParseErrors == {"UnexpectedToken", "UnexpectedEOF", "InvalidExpression"}

\* C26: in `if c { .. }`, `while c { .. }` and `for x in a..b { .. }` the `{`
\* after the condition or the range end opens the statement's block and is
\* never read as the start of a struct literal, also when c (or b) ends in
\* a bare identifier: the statement parses to the If, While or For of c and
\* the block.
C26_BraceOpensBlock ==
    prog.family = "cond" /\ Parsed =>
        /\ fe.result = "Ok"
        /\ fe.statements = <<CondStmt(prog.shape, prog.a, prog.b)>>

\* `if a { }` is refused: the condition was read as the struct literal a { }
\* and no `{` is left for the block
C26_Witness ==
    /\ prog = [family |-> "cond", shape |-> 1, a |-> 1, b |-> 1]
    /\ fe.result = "UnexpectedToken"
    /\ expression(fe.tokens, 1) = POk(EStructLiteral(IdA, <<>>), 4)

\* the node the claim states for target op value
StatedAssign(t, o, v) ==
    CASE t = 1 -> EAssign(IdA, IF o = 1 THEN RhsExpr(v)
                               ELSE EBinary(LhsExpr(t), BinaryOp(TokenFrom(OpWord(o), 0).token.token_type), RhsExpr(v)))
      [] t = 2 -> EIndexAssign(EIdent(IdA), EInt(1),
                               IF o = 1 THEN RhsExpr(v)
                               ELSE EBinary(LhsExpr(t), BinaryOp(TokenFrom(OpWord(o), 0).token.token_type), RhsExpr(v)))
      [] OTHER -> EFieldAssign(EIdent(IdA), IdF,
                               IF o = 1 THEN RhsExpr(v)
                               ELSE EBinary(LhsExpr(t), BinaryOp(TokenFrom(OpWord(o), 0).token.token_type), RhsExpr(v)))

\* C27: Parser::parse returns a ParseError for every input in which `=` or a
\* compound-assignment operator follows an expression that is not an
\* identifier, an index expression or a field access; for those three
\* targets it builds Assign, IndexAssign or FieldAssign with a
\* right-associative value; the operator is never silently dropped.
C27_AssignTargets ==
    prog.family = "assignop" /\ Parsed =>
        IF prog.shape \in 1..3 /\ IsSome(RhsExpr(prog.b))
        THEN /\ fe.result = "Ok"
             /\ fe.statements = <<SExpr(StatedAssign(prog.shape, prog.a, prog.b))>>
        ELSE fe.result \in ParseErrors

\* `1 = ;` parses to the expression statement 1: the `=` was read and dropped
C27_Witness ==
    /\ prog = [family |-> "assignop", shape |-> 4, a |-> 1, b |-> 4]
    /\ fe.result = "Ok"
    /\ fe.tokens[2].token_type = "Equal"
    /\ fe.statements = <<SExpr(EInt(1))>>

\* C28: Parser::parse returns Ok or a ParseError and never panics, for every
\* token sequence the lexer can produce, Integer tokens with a 0x/0b/0o
\* prefix in the lexeme or with digits beyond the i64 range included.
C28_ParserNeverPanics == fe.result # "panic"

\* 0xFF; the lexer hands over the Integer token 0xFF, whose parse::<i64>()
\* is an Err that primary() unwraps
C28_Witness ==
    /\ prog = [family |-> "number", shape |-> 1, a |-> 2, b |-> 35]
    /\ fe.result = "panic"
    /\ fe.tokens[1] = Token("Integer", <<"0", "x", "F", "F">>)
    /\ fe.current = 0

\* the character a char literal writes between its quotes, after escape
\* processing; None where the content is not one character or one escape
WrittenChar(content) ==
    IF Len(content) = 1 /\ content[1] \notin {"\\", "'"} THEN Some(content[1])
    ELSE IF content = <<"\\", "n">> THEN Some("\n")
    ELSE IF content = <<"\\", "0">> THEN Some("NUL")
    ELSE IF content = <<"\\", "\\">> THEN Some("\\")
    ELSE IF content = <<"\\", "'">> THEN Some("'")
    ELSE IF Len(content) = 4 /\ content[1] = "\\" /\ content[2] = "x"
            /\ is_ascii_hexdigit(content[3]) /\ is_ascii_hexdigit(content[4])
    THEN Some(HexChar(content[3], content[4]))
    ELSE None

\* C29: lexing and parsing a char literal yields Expr::Char(c) where c is
\* the single character written between the quotes (after escape
\* processing), for every character, ASCII characters included.
C29_CharLiteral ==
    /\ prog.family = "char"
    /\ Parsed
    /\ IsSome(WrittenChar(CharContent(prog.shape, prog.a, prog.b)))
    => /\ fe.result = "Ok"
       /\ fe.statements =
            <<SExpr(EChar(WrittenChar(CharContent(prog.shape, prog.a, prog.b)).v))>>

\* 'a'; parses to Expr::Char('\0')
C29_Witness ==
    /\ prog = [family |-> "char", shape |-> 1, a |-> 0, b |-> 1]
    /\ fe.result = "Ok"
    /\ fe.tokens[1] = Token("Char", <<"a">>)
    /\ fe.statements = <<SExpr(EChar("NUL"))>>


(***************************************************************************)
(* interpreter: Value, Environment                                         *)
(***************************************************************************)
ValueInteger(i) == [k |-> "Integer", v |-> i]
ValueString(s) == [k |-> "String", v |-> s]
ValueBoolean(b) == [k |-> "Boolean", v |-> b]
ValueChar(c) == [k |-> "Char", v |-> c]
ValueFunction(parameters, body) ==
    [k |-> "Function", parameters |-> parameters, body |-> body]
ValueNull == [k |-> "Null"]

\* Value::to_string, the text println! writes
to_string(value) ==
    CASE value.k = "Integer" -> ToString(value.v)
      [] value.k = "Boolean" -> IF value.v THEN "true" ELSE "false"
      [] value.k = "Function" -> "<function>"
      [] value.k = "Null" -> "null"
      [] OTHER -> value.v

is_truthy(value) ==
    CASE value.k = "Boolean" -> value.v
      [] value.k = "Null" -> FALSE
      [] value.k = "Integer" -> value.v # 0
      [] value.k = "Char" -> value.v # "NUL"
      [] OTHER -> TRUE

\* Environment::new: one global scope
NewEnvironment == [scopes |-> <<EmptyMap>>]

env_push_scope(env) == [env EXCEPT !.scopes = Append(@, EmptyMap)]

\* Vec::pop, which leaves an empty vector empty
env_pop_scope(env) == [env EXCEPT !.scopes = SubSeq(@, 1, Len(@) - 1)]

env_define(env, name, value) ==
    IF env.scopes = <<>> THEN env
    ELSE [env EXCEPT !.scopes[Len(env.scopes)] = MapPut(@, name, value)]

\* the innermost scope that holds the name, 0 when no scope does
Holding(env, name) ==
    LET found == {i \in 1..Len(env.scopes) : name \in DOMAIN env.scopes[i]}
    IN IF found = {} THEN 0 ELSE CHOOSE i \in found : \A j \in found : j <= i

\* Interpreter::new, with the standard output the process has written
NewInterpreter == [environment |-> NewEnvironment, stdout |-> <<>>]

\* RuntimeResult: Ok(value) or Err(RuntimeError), with the interpreter after it;
\* ReturnValue, BreakSignal and ContinueSignal are RuntimeError variants
IOk(self, v) == [r |-> "Ok", self |-> self, v |-> v]
IErr(self, e) == [r |-> e, self |-> self, v |-> ValueNull]
IReturn(self, v) == [r |-> "ReturnValue", self |-> self, v |-> v]

env_get(self, name) ==
    IF Holding(self.environment, name) = 0 THEN IErr(self, "UndefinedVariable")
    ELSE IOk(self, self.environment.scopes[Holding(self.environment, name)][name])

env_set(self, name, value) ==
    IF Holding(self.environment, name) = 0 THEN IErr(self, "UndefinedVariable")
    ELSE IOk([self EXCEPT
                 !.environment.scopes[Holding(self.environment, name)] =
                     MapPut(@, name, value)], value)

(***************************************************************************)
(* interpreter: Interpreter, expressions                                   *)
(***************************************************************************)
\* i64 division and remainder, which round toward zero
Magnitude(i) == IF i < 0 THEN 0 - i ELSE i
Quotient(l, r) ==
    IF (l < 0) = (r < 0) THEN Magnitude(l) \div Magnitude(r)
    ELSE 0 - (Magnitude(l) \div Magnitude(r))
Remainder(l, r) == l - r * Quotient(l, r)

values_equal(left, right) ==
    /\ left.k = right.k
    /\ left.k \in {"Integer", "Float", "String", "Boolean", "Null"}
    /\ left.k # "Null" => left.v = right.v

Integers2(l, r) == l.k = "Integer" /\ r.k = "Integer"
Floats(l, r) == l.k = "Float" \/ r.k = "Float"

\* the match on (left_val, right_val) in evaluate_binary; floating point
\* arithmetic is left out
Arithmetic(self, operator, l, r) ==
    IF Floats(l, r) THEN IErr(self, "unmodelled")
    ELSE IF ~Integers2(l, r)
    THEN IF operator = "Add" /\ l.k = "String" /\ r.k = "String"
         THEN IOk(self, ValueString(l.v \o r.v))
         ELSE IErr(self, "TypeMismatch")
    ELSE CASE operator = "Add" -> IOk(self, ValueInteger(l.v + r.v))
           [] operator = "Subtract" -> IOk(self, ValueInteger(l.v - r.v))
           [] operator = "Multiply" -> IOk(self, ValueInteger(l.v * r.v))
           [] operator = "Divide" ->
                IF r.v = 0 THEN IErr(self, "DivisionByZero")
                ELSE IOk(self, ValueInteger(Quotient(l.v, r.v)))
           [] OTHER ->
                IF r.v = 0 THEN IErr(self, "DivisionByZero")
                ELSE IOk(self, ValueInteger(Remainder(l.v, r.v)))

Comparison(self, operator, l, r) ==
    IF Floats(l, r) THEN IErr(self, "unmodelled")
    ELSE IF ~Integers2(l, r) THEN IErr(self, "TypeMismatch")
    ELSE IOk(self, ValueBoolean(CASE operator = "Less" -> l.v < r.v
                                  [] operator = "LessEqual" -> l.v <= r.v
                                  [] operator = "Greater" -> l.v > r.v
                                  [] OTHER -> l.v >= r.v))

ApplyBinary(self, operator, l, r) ==
    CASE operator \in {"Add", "Subtract", "Multiply", "Divide", "Modulo"} ->
            Arithmetic(self, operator, l, r)
      [] operator = "Equal" -> IOk(self, ValueBoolean(values_equal(l, r)))
      [] operator = "NotEqual" -> IOk(self, ValueBoolean(~values_equal(l, r)))
      [] operator \in {"Less", "LessEqual", "Greater", "GreaterEqual"} ->
            Comparison(self, operator, l, r)
      [] operator = "And" -> IOk(self, ValueBoolean(is_truthy(l) /\ is_truthy(r)))
      [] OTHER -> IOk(self, ValueBoolean(is_truthy(l) \/ is_truthy(r)))

ApplyUnary(operand, operator) ==
    IF operand.r # "Ok" THEN operand
    ELSE IF operator = "Not" THEN IOk(operand.self, ValueBoolean(~is_truthy(operand.v)))
    ELSE IF operand.v.k = "Integer" THEN IOk(operand.self, ValueInteger(0 - operand.v.v))
    ELSE IF operand.v.k = "Float" THEN IErr(operand.self, "unmodelled")
    ELSE IErr(operand.self, "TypeMismatch")

RECURSIVE evaluate_expression(_, _)
RECURSIVE execute_statement(_, _)
RECURSIVE execute_function_body(_, _, _)
RECURSIVE BindArguments(_, _, _, _)
RECURSIVE WhileLoop(_, _)
RECURSIVE ForLoop(_, _, _, _)

\* `let right_val = self.evaluate_expression(right)?` and the operator
RightOperand(left_val, right, operator) ==
    IF right.r # "Ok" THEN right ELSE ApplyBinary(right.self, operator, left_val, right.v)

\* `let left_val = self.evaluate_expression(left)?`
LeftOperand(left, e) ==
    IF left.r # "Ok" THEN left
    ELSE RightOperand(left.v, evaluate_expression(left.self, e.right), e.operator)

evaluate_binary(self, e) == LeftOperand(evaluate_expression(self, e.left), e)

evaluate_unary(self, e) == ApplyUnary(evaluate_expression(self, e.operand), e.operator)

\* the match on execute_function_body's result, then pop_scope
CallResult(result) ==
    CASE result.r = "Ok" ->
            IOk([result.self EXCEPT !.environment = env_pop_scope(@)], ValueNull)
      [] result.r = "ReturnValue" ->
            IOk([result.self EXCEPT !.environment = env_pop_scope(@)], result.v)
      [] OTHER -> [result EXCEPT !.self.environment = env_pop_scope(@)]

\* `let arg_value = self.evaluate_expression(arg)?` returns before pop_scope
CallBody(bound, body) ==
    IF bound.r # "Ok" THEN bound
    ELSE CallResult(execute_function_body(bound.self, body, 1))

BindNext(arg, parameters, arguments, i) ==
    IF arg.r # "Ok" THEN arg
    ELSE BindArguments([arg.self EXCEPT
                           !.environment = env_define(@, parameters[i].name, arg.v)],
                       parameters, arguments, i + 1)

\* the loop over parameters.iter().zip(arguments.iter())
BindArguments(self, parameters, arguments, i) ==
    IF i > Len(parameters) THEN IOk(self, ValueNull)
    ELSE BindNext(evaluate_expression(self, arguments[i]), parameters, arguments, i)

Called(func, arguments) ==
    IF func.r # "Ok" THEN func
    ELSE IF func.v.k # "Function" THEN IErr(func.self, "TypeMismatch")
    ELSE IF Len(func.v.parameters) # Len(arguments) THEN IErr(func.self, "TypeMismatch")
    ELSE CallBody(BindArguments([func.self EXCEPT !.environment = env_push_scope(@)],
                                func.v.parameters, arguments, 1),
                  func.v.body)

evaluate_call(self, e) == Called(evaluate_expression(self, e.callee), e.arguments)

Assigned(val, name) ==
    IF val.r # "Ok" THEN val ELSE env_set(val.self, name, val.v)

evaluate_expression(self, expr) ==
    CASE expr.k \in {"StructLiteral", "FieldAccess"} -> IOk(self, ValueNull)
      [] expr.k \in {"FieldAssign", "IndexAssign"} -> evaluate_expression(self, expr.value)
      [] expr.k \in {"MethodCall", "Index"} -> IErr(self, "InvalidOperation")
      [] expr.k = "Integer" -> IOk(self, ValueInteger(expr.v))
      [] expr.k = "String" -> IOk(self, ValueString(expr.v))
      [] expr.k = "Boolean" -> IOk(self, ValueBoolean(expr.v))
      [] expr.k = "Char" -> IOk(self, ValueChar(expr.v))
      [] expr.k = "Identifier" -> env_get(self, expr.name)
      [] expr.k = "Path" ->
            IF expr.segments = <<>> THEN IErr(self, "UndefinedVariable")
            ELSE env_get(self, expr.segments[Len(expr.segments)])
      [] expr.k = "Binary" -> evaluate_binary(self, expr)
      [] expr.k = "Unary" -> evaluate_unary(self, expr)
      [] expr.k = "Call" -> evaluate_call(self, expr)
      [] expr.k = "Assign" ->
            Assigned(evaluate_expression(self, expr.value), expr.name)
      [] expr.k = "Array" ->
            IOk(self, ValueString("Array[" \o ToString(Len(expr.elements)) \o "]"))
      [] OTHER -> IErr(self, "unmodelled")


(***************************************************************************)
(* interpreter: Interpreter, statements                                    *)
(***************************************************************************)
Rest(done, body, i) ==
    IF done.r # "Ok" THEN done ELSE execute_function_body(done.self, body, i + 1)

\* `for stmt in body { self.execute_statement(stmt)?; } Ok(Value::Null)`, from
\* statement i on; the If, Block and ModuleDeclaration arms hold the same loop
execute_function_body(self, body, i) ==
    IF i > Len(body) THEN IOk(self, ValueNull)
    ELSE Rest(execute_statement(self, body[i]), body, i)

Declared(init, name) ==
    IF init.r # "Ok" THEN init
    ELSE IOk([init.self EXCEPT !.environment = env_define(@, name, init.v)], ValueNull)

ReturnSignal(value) ==
    IF value.r # "Ok" THEN value ELSE IReturn(value.self, value.v)

Branch(condition, s) ==
    IF condition.r # "Ok" THEN condition
    ELSE IF is_truthy(condition.v) THEN execute_function_body(condition.self, s.then_branch, 1)
    ELSE IF IsSome(s.else_branch)
    THEN execute_function_body(condition.self, s.else_branch.v, 1)
    ELSE IOk(condition.self, ValueNull)

\* the match on each body statement's result: the first that is not Ok ends
\* the turn
WhileTurn(turn, s) ==
    CASE turn.r = "BreakSignal" -> IOk(turn.self, ValueNull)
      [] turn.r \in {"Ok", "ContinueSignal"} -> WhileLoop(turn.self, s)
      [] OTHER -> turn

WhileTest(condition, s) ==
    IF condition.r # "Ok" THEN condition
    ELSE IF ~is_truthy(condition.v) THEN IOk(condition.self, ValueNull)
    ELSE WhileTurn(execute_function_body(condition.self, s.body, 1), s)

WhileLoop(self, s) == WhileTest(evaluate_expression(self, s.condition), s)

\* the For arm pops its scope on break and on every error
ForTurn(turn, s, i, end_i) ==
    CASE turn.r = "BreakSignal" ->
            IOk([turn.self EXCEPT !.environment = env_pop_scope(@)], ValueNull)
      [] turn.r \in {"Ok", "ContinueSignal"} -> ForLoop(turn.self, s, i + 1, end_i)
      [] OTHER -> [turn EXCEPT !.self.environment = env_pop_scope(@)]

ForLoop(self, s, i, end_i) ==
    IF i >= end_i
    THEN IOk([self EXCEPT !.environment = env_pop_scope(@)], ValueNull)
    ELSE ForTurn(execute_function_body(
                     [self EXCEPT !.environment =
                                      env_define(@, s.variable, ValueInteger(i))],
                     s.body, 1),
                 s, i, end_i)

ForRange(start_val, end, s) ==
    IF end.r # "Ok" THEN end
    ELSE IF start_val.k = "Integer" /\ end.v.k = "Integer"
    THEN ForLoop([end.self EXCEPT !.environment = env_push_scope(@)], s,
                 start_val.v, end.v.v)
    ELSE IErr(end.self, "TypeMismatch")

ForStart(start, s) ==
    IF start.r # "Ok" THEN start
    ELSE ForRange(start.v, evaluate_expression(start.self, s.end), s)

Printed(result) ==
    IF result.r # "Ok" THEN result
    ELSE IOk([result.self EXCEPT !.stdout = Append(@, to_string(result.v))], ValueNull)

\* the Block arm: `?` returns before pop_scope
BlockEnd(done) ==
    IF done.r # "Ok" THEN done
    ELSE IOk([done.self EXCEPT !.environment = env_pop_scope(@)], ValueNull)

execute_statement(self, stmt) ==
    CASE stmt.k \in {"StructDeclaration", "TypeAlias", "ImplBlock", "UseStatement",
                     "ModuleReference"} -> IOk(self, ValueNull)
      [] stmt.k = "Expression" -> evaluate_expression(self, stmt.expr)
      [] stmt.k = "VarDeclaration" ->
            IF IsSome(stmt.initializer)
            THEN Declared(evaluate_expression(self, stmt.initializer), stmt.name)
            ELSE Declared(IOk(self, ValueNull), stmt.name)
      [] stmt.k = "FnDeclaration" ->
            Declared(IOk(self, ValueFunction(stmt.parameters, stmt.body)), stmt.name)
      [] stmt.k = "Return" ->
            IF IsSome(stmt.value) THEN ReturnSignal(evaluate_expression(self, stmt.value))
            ELSE IReturn(self, ValueNull)
      [] stmt.k = "If" -> Branch(evaluate_expression(self, stmt.condition), stmt)
      [] stmt.k = "While" -> WhileLoop(self, stmt)
      [] stmt.k = "For" -> ForStart(evaluate_expression(self, stmt.start), stmt)
      [] stmt.k = "Print" -> Printed(evaluate_expression(self, stmt.value))
      [] stmt.k = "Block" ->
            BlockEnd(execute_function_body(
                         [self EXCEPT !.environment = env_push_scope(@)],
                         stmt.statements, 1))
      [] stmt.k = "Break" -> IErr(self, "BreakSignal")
      [] stmt.k = "Continue" -> IErr(self, "ContinueSignal")
      [] stmt.k = "ModuleDeclaration" -> execute_function_body(self, stmt.statements, 1)
      [] OTHER -> IErr(self, "unmodelled")


(***************************************************************************)
(* The scripts the legacy interpreter runs: a scoped statement (a Block, a *)
(* call, a loop) around an exit path, nested in further Blocks.            *)
(***************************************************************************)
MaxContainer == 5  \* the statement around the exit: Block, call, while, for, call argument
MaxExit == 6       \* the exit path: completion, return, break, continue, two runtime errors
MaxNest == 2       \* the number of Blocks between the statement and the exit
MaxTurns == 2      \* the number of turns of the loops

DivideByZero == EBinary(EInt(1), "Divide", EInt(0))

ExitStatement(a) ==
    CASE a = 1 -> Var("inner", EInt(1))
      [] a = 2 -> SReturn(EInt(7))
      [] a = 3 -> SBreak
      [] a = 4 -> SContinue
      [] a = 5 -> SExpr(DivideByZero)
      [] OTHER -> SExpr(Ident("missing"))

ExitArgument(a) ==
    CASE a = 5 -> DivideByZero
      [] a = 6 -> Ident("missing")
      [] OTHER -> EInt(a)

RECURSIVE Nested(_, _)
Nested(stmt, depth) ==
    IF depth = 0 THEN <<stmt>>
    ELSE <<SBlock(<<Var("local", EInt(depth))>> \o Nested(stmt, depth - 1))>>

FnF(body) == SFn(Private, "f", <<Parameter("p", None)>>, None, body)
CallF(argument) == SExpr(ECall(Ident("f"), <<argument>>))
CountN == SExpr(EAssign("n", EBinary(Ident("n"), "Add", EInt(1))))

Scoped(shape, a, b) ==
    CASE shape = 1 -> <<SBlock(Nested(ExitStatement(a), b))>>
      [] shape = 2 -> <<FnF(Nested(ExitStatement(a), b)), CallF(EInt(1))>>
      [] shape = 3 ->
            <<SWhile(EBinary(Ident("n"), "Less", EInt(MaxTurns)),
                     <<CountN>> \o Nested(ExitStatement(a), b))>>
      [] shape = 4 ->
            <<SFor("i", EInt(0), EInt(MaxTurns), Nested(ExitStatement(a), b))>>
      [] OTHER -> <<FnF(Nested(ExitStatement(1), b)), CallF(ExitArgument(a))>>

Script(pr) ==
    <<Var("n", EInt(0))>> \o Scoped(pr.shape, pr.a, pr.b)
        \o <<Var("after", EInt(1)), SPrint(Ident("n"))>>

Scripts == [family : {"scope"}, shape : 1..MaxContainer, a : 1..MaxExit, b : 0..MaxNest]

(***************************************************************************)
(* The legacy interpreter: Interpreter::interpret, a statement at a time   *)
(***************************************************************************)
InitInterp ==
    /\ prog \in Scripts
    /\ phase = "source"
    /\ IdlePipeline
    /\ IdleLoader
    /\ IdleResolve
    /\ IdleFrontEnd
    /\ it = [status |-> "running", self |-> NewInterpreter,
             statements |-> Script(prog), next |-> 1]

\* one turn of `for stmt in program.statements { self.execute_statement(&stmt)?; }`
InterpretStatement ==
    /\ it.status = "running"
    /\ it.next <= Len(it.statements)
    /\ \E done \in {execute_statement(it.self, it.statements[it.next])} :
          it' = IF done.r = "Ok"
                THEN [it EXCEPT !.self = done.self, !.next = @ + 1]
                ELSE [it EXCEPT !.self = done.self, !.status = done.r]
    /\ UNCHANGED <<pipelineVars, loaderVars, rt, fe>>

\* interpret returns Ok(()) after the last statement
InterpretEnd ==
    /\ it.status = "running"
    /\ it.next > Len(it.statements)
    /\ it' = [it EXCEPT !.status = "Ok"]
    /\ UNCHANGED <<pipelineVars, loaderVars, rt, fe>>

NextInterp ==
    \/ InterpretStatement
    \/ InterpretEnd

SpecInterp == InitInterp /\ [][NextInterp]_vars

\* the depth of Environment.scopes
Depth == Len(it.self.environment.scopes)

\* the statement interpret executes next is a Block, a call or a loop
AtScoped ==
    /\ it.status = "running"
    /\ it.next <= Len(it.statements)
    /\ it.statements[it.next].k \in {"Block", "Expression", "While", "For"}

\* C30: in the legacy interpreter a function call and the execution of a Block
\* leave Environment.scopes at the depth it had before, on every exit path:
\* completion, return from a nested Block, break or continue from inside a
\* Block, and a runtime error.
C30_ScopesBalanced ==
    [][AtScoped => Len(it'.self.environment.scopes) = Depth]_vars

\* f's body returns from inside a Block; the call has completed and popped
\* the Block's scope, f's own scope is still on the stack and its parameter
\* still visible
C30_Witness ==
    /\ prog = [family |-> "scope", shape |-> 2, a |-> 2, b |-> 1]
    /\ it.status = "running"
    /\ it.next = 4
    /\ Depth = 2
    /\ env_get(it.self, "p").r = "Ok"

NoUnmodelledInterp == it.status # "unmodelled"

====
